---- MODULE Spec2Model ----
(***************************************************************************)
(* Model of the alto EC2 agent: the local resource ledger (ec2.json), the  *)
(* provisioning of key pair / security group / IAM profile / instance /    *)
(* log group by the SSH and SSM protocols, the rollback done by a failed   *)
(* apply, run and delete, against an abstract cloud provider.              *)
(***************************************************************************)
EXTENDS Integers, Sequences, FiniteSets, TLC

(***************************************************************************)
(* Bounds of the model.                                                    *)
(***************************************************************************)
MaxOps == 3
MaxFaults == 1
MaxMerges == 3

(***************************************************************************)
(* Names, resource kinds and plain data.                                   *)
(***************************************************************************)
instance_name == "proj-agent"
other_name == "proj-other"

KEY_PAIR == "key_pair"
SECURITY_GROUP_ID == "security_group_id"
INSTANCE_ID == "instance_id"
PUBLIC_DNS_NAME == "public_dns_name"
RES_STATE == "state"
ROLE_ARN == "role_arn"
INSTANCE_PROFILE_ARN == "instance_profile_arn"
LOG_GROUP == "log_group"
PEM_KEY_PATH == "pem_key_path"

PENDING == "pending"
RUNNING == "running"
STOPPING == "stopping"
STOPPED == "stopped"
SHUTTING_DOWN == "shutting-down"
TERMINATED == "terminated"

SshKinds == {KEY_PAIR, SECURITY_GROUP_ID, INSTANCE_ID, PUBLIC_DNS_NAME, RES_STATE}
SsmKinds == {ROLE_ARN, INSTANCE_PROFILE_ARN, INSTANCE_ID, PUBLIC_DNS_NAME, RES_STATE, LOG_GROUP}

EmptyMap == [k \in {} |-> 0]

\* dict.update: keys of b win over keys of a
DictUpdate(a, b) ==
    [k \in (DOMAIN a) \cup (DOMAIN b) |-> IF k \in DOMAIN b THEN b[k] ELSE a[k]]

\* dict.get(k, None) is None
IsNone(m, k) == k \notin DOMAIN m

(***************************************************************************)
(* Strings are sequences of one-character strings.                         *)
(***************************************************************************)
Digits == {"0", "1", "2", "3", "4", "5", "6", "7", "8", "9"}
HexDigits == Digits \cup {"a", "b", "c", "d", "e", "f", "A", "B", "C", "D", "E", "F"}

RECURSIVE SplitOn(_, _)
SplitOn(s, sep) ==
    IF \A i \in 1..Len(s) : s[i] # sep
    THEN <<s>>
    ELSE LET i == CHOOSE j \in 1..Len(s) :
                      s[j] = sep /\ \A k \in 1..(j - 1) : s[k] # sep
         IN  <<SubSeq(s, 1, i - 1)>> \o SplitOn(SubSeq(s, i + 1, Len(s)), sep)

GroupsMatch(s, sep, count, maxlen, alphabet) ==
    LET g == SplitOn(s, sep)
    IN  /\ Len(g) = count
        /\ \A i \in 1..Len(g) :
              /\ Len(g[i]) \in 1..maxlen
              /\ \A j \in 1..Len(g[i]) : g[i][j] \in alphabet

\* re.findall(r'(^(?:\d{1,3}\.){3}\d{1,3}$)', external_ip)
flag_is_ipv4(external_ip) == GroupsMatch(external_ip, ".", 4, 3, Digits)

\* re.findall(r'^((?:[0-9a-fA-F]{1,4}:){7}[0-9a-fA-F]{1,4})$', external_ip)
flag_is_ipv6(external_ip) == GroupsMatch(external_ip, ":", 8, 4, HexDigits)

\* the classifier falling back on ipv6 for whatever is not IPv4
check_ip_address_type_default(external_ip) ==
    IF flag_is_ipv4(external_ip) THEN "ipv4" ELSE "ipv6"

check_ip_address_type(external_ip) ==
    IF flag_is_ipv4(external_ip) /\ flag_is_ipv6(external_ip) THEN "ValueError"
    ELSE IF ~(flag_is_ipv4(external_ip) \/ flag_is_ipv6(external_ip)) THEN "ValueError"
    ELSE IF flag_is_ipv4(external_ip) THEN "ipv4"
    ELSE "ipv6"

\* a in b, for strings
IsSubstring(a, b) ==
    \E i \in 0..(Len(b) - Len(a)) : SubSeq(b, i + 1, i + Len(a)) = a

IpV4Caller == <<"1", ".", "2", ".", "3", ".", "4">>
IpV6Caller == <<"f", "e", "8", "0", ":", "0", ":", "0", ":", "0", ":", "0", ":", "0", ":", "0", ":", "1">>
IpV6Compressed == <<"f", "e", "8", "0", ":", ":", "1">>
IpZero == <<"0", ".", "0", ".", "0", ".", "0">>
CallerIps == {IpV4Caller, IpV6Caller, IpV6Compressed}

Slash32(ip) == ip \o <<"/", "3", "2">>
CidrAnyV4 == IpZero \o <<"/", "0">>
CidrAnyV6 == <<":", ":", "/", "0">>

\* add_ingress_rule authorising the caller's /32 whatever whitelist_all is
IngressPermissionCallerOnly(external_ip, whitelist) ==
    IF check_ip_address_type(external_ip) = "ipv4"
    THEN [IpProtocol |-> "tcp", FromPort |-> 22, ToPort |-> 22, family |-> "ipv4",
          cidr |-> Slash32(external_ip)]
    ELSE [IpProtocol |-> "tcp", FromPort |-> 22, ToPort |-> 22, family |-> "ipv6",
          cidr |-> CidrAnyV6]

\* the IpPermissions built by add_ingress_rule
IngressPermission(external_ip, whitelist) ==
    IF check_ip_address_type(external_ip) = "ipv4"
    THEN [IpProtocol |-> "tcp", FromPort |-> 22, ToPort |-> 22, family |-> "ipv4",
          cidr |-> IF whitelist THEN CidrAnyV4 ELSE Slash32(external_ip)]
    ELSE [IpProtocol |-> "tcp", FromPort |-> 22, ToPort |-> 22, family |-> "ipv6",
          cidr |-> CidrAnyV6]

\* the value add_ingress_rule returns when the authorisation succeeds
AddedIp(external_ip, whitelist) ==
    IF check_ip_address_type(external_ip) = "ipv4" /\ whitelist THEN IpZero ELSE external_ip

\* the scan of check_ingress_ip over the rules of the security group
ip_allowed(rules, external_ip, whitelist) ==
    \E p \in rules :
        /\ p.FromPort = 22 /\ p.IpProtocol = "tcp" /\ p.ToPort = 22
        /\ IF check_ip_address_type(external_ip) = "ipv4"
           THEN p.family = "ipv4"
                /\ IsSubstring(IF whitelist THEN CidrAnyV4 ELSE Slash32(external_ip), p.cidr)
           ELSE p.family = "ipv6" /\ IsSubstring(CidrAnyV6, p.cidr)

(***************************************************************************)
(* The ledger file ~/.alto/ec2.json.                                       *)
(***************************************************************************)
NoFile == [is_file |-> FALSE, json |-> EmptyMap]

empty_data(name) == name :> [resources |-> EmptyMap, files |-> EmptyMap]

write_json(data) == [is_file |-> TRUE, json |-> data]

\* Ec2.__init__: create the file, or add the instance name to it
Ec2Init(file, name) ==
    IF ~file.is_file THEN write_json(empty_data(name))
    ELSE IF name \notin DOMAIN file.json
         THEN write_json(DictUpdate(file.json, empty_data(name)))
         ELSE file

\* update_json raises KeyError when the stored record lacks a map that the
\* patch carries
update_json_raises(file, name, data) ==
    /\ file.is_file
    /\ name \in DOMAIN file.json
    /\ \E key \in {"resources", "files"} :
          key \in DOMAIN data /\ key \notin DOMAIN file.json[name]

\* update_json assigning the maps of the patch instead of updating with them
update_json_replace(file, name, data) ==
    IF ~file.is_file THEN write_json(name :> data)
    ELSE IF name \notin DOMAIN file.json
         THEN write_json(DictUpdate(file.json, name :> data))
         ELSE write_json(
                [file.json EXCEPT ![name] =
                    [key \in DOMAIN @ |->
                        IF key \in {"resources", "files"} /\ key \in DOMAIN data
                        THEN data[key]
                        ELSE @[key]]])

update_json(file, name, data) ==
    IF ~file.is_file THEN write_json(name :> data)
    ELSE IF name \notin DOMAIN file.json
         THEN write_json(DictUpdate(file.json, name :> data))
         ELSE write_json(
                [file.json EXCEPT ![name] =
                    [key \in DOMAIN @ |->
                        IF key \in {"resources", "files"} /\ key \in DOMAIN data
                        THEN DictUpdate(@[key], data[key])
                        ELSE @[key]]])

(***************************************************************************)
(* State.                                                                  *)
(***************************************************************************)
VARIABLES
    cloud,          \* the provider: key pair, security group, instances, IAM, log group
    ledger,         \* ~/.alto/ec2.json
    pem_file,       \* TRUE iff ~/.alto/<instance_name>.pem exists
    external_ip,    \* what https://ident.me answers
    pc,             \* position of the running command
    task,           \* "apply", "run" or "delete"
    args,           \* protocol and command-line flags of the running command
    current_data,   \* the record read from the ledger by apply / run / delete
    resource_data,  \* Protocol.resource_data
    loc,            \* local variables of the running command
    returncode,     \* return code of the command (-1: none yet)
    err,            \* the exception being propagated ("none": no exception)
    nOps,           \* commands started so far
    faults,         \* provider errors injected so far
    hist,           \* what the running command has done so far
    patches         \* the patches merged so far (ledger merge specification)

vars == <<cloud, ledger, pem_file, external_ip, pc, task, args, current_data,
          resource_data, loc, returncode, err, nOps, faults, hist, patches>>

NoResp == [found |-> FALSE, instance_id |-> 0, public_dns_name |-> 0,
           key_name |-> "", security_groups |-> 0, state |-> ""]

NoLoc == [security_group_id |-> 0, instance_id |-> 0, resp |-> NoResp,
          after |-> "raise", exit |-> 0, step |-> 1, added_ip |-> "unset",
          json_data |-> [resources |-> EmptyMap, files |-> EmptyMap]]

NoCloud == [key_pair |-> FALSE,
            sg |-> [id |-> 0, rules |-> {}],
            sg_count |-> 0,
            instances |-> <<>>,
            role |-> FALSE, policies |-> 0, profile |-> FALSE, profile_role |-> FALSE,
            log_group |-> FALSE]

CreateKinds == {"key_pair", "security_group", "role", "instance_profile", "instance", "log_group"}

NoHist == [creates |-> [k \in CreateKinds |-> 0],
           deletes |-> <<>>,
           execs |-> <<>>,
           escalated |-> FALSE,
           stage |-> "none",
           checks |-> 0,
           rb_fault |-> FALSE,
           run_rc |-> -1,
           ingress |-> <<>>,
           sent |-> <<>>,
           downloads |-> <<>>,
           start |-> [ledger |-> NoFile, cloud |-> NoCloud, pem_file |-> FALSE,
                      faults |-> 0]]

Init ==
    /\ cloud = NoCloud
    /\ ledger \in {NoFile,
                   write_json(other_name :> [resources |-> (KEY_PAIR :> other_name),
                                             files |-> (PEM_KEY_PATH :> "other.pem")])}
    /\ pem_file = FALSE
    /\ external_ip \in CallerIps
    /\ pc = "idle"
    /\ task = "none"
    /\ args = [protocol |-> "ssh", whitelist_all |-> FALSE,
               no_delete_failure |-> FALSE, no_delete_success |-> FALSE]
    /\ current_data = [resources |-> EmptyMap, files |-> EmptyMap]
    /\ resource_data = EmptyMap
    /\ loc = NoLoc
    /\ returncode = -1
    /\ err = "none"
    /\ nOps = 0
    /\ faults = 0
    /\ hist = NoHist
    /\ patches = <<>>

(***************************************************************************)
(* The provider.                                                           *)
(***************************************************************************)
\* an injected provider error that no retry loop of the tool recognises
Fault == faults < MaxFaults /\ faults' = faults + 1

IsLive(inst) == inst.state \notin {SHUTTING_DOWN, TERMINATED}

\* describe_instances, as read by check_instance_data
check_instance_data(c, instance_id) ==
    IF instance_id \in 1..Len(c.instances)
    THEN [found |-> TRUE,
          instance_id |-> instance_id,
          public_dns_name |-> c.instances[instance_id].public_dns_name,
          key_name |-> c.instances[instance_id].key_name,
          security_groups |-> c.instances[instance_id].sg,
          state |-> c.instances[instance_id].state]
    ELSE NoResp

\* delete_security_group answers DependencyViolation while an instance that
\* is not terminated is attached to the group
DependencyViolation(c, sgid) ==
    \E i \in 1..Len(c.instances) :
        c.instances[i].sg = sgid /\ c.instances[i].state # TERMINATED

terminate_instances(c, instance_id) ==
    [c EXCEPT !.instances[instance_id].state =
        IF @ = TERMINATED THEN TERMINATED ELSE SHUTTING_DOWN]

\* the instance leaves PENDING
EnvInstanceRunning ==
    /\ \E i \in 1..Len(cloud.instances) :
          /\ cloud.instances[i].state = PENDING
          /\ cloud' = [cloud EXCEPT !.instances[i].state = RUNNING,
                                    !.instances[i].public_dns_name = i]
    /\ UNCHANGED <<ledger, pem_file, external_ip, pc, task, args, current_data,
                   resource_data, loc, returncode, err, nOps, faults, hist, patches>>

\* a terminated instance finishes shutting down
EnvInstanceTerminated ==
    /\ \E i \in 1..Len(cloud.instances) :
          /\ cloud.instances[i].state = SHUTTING_DOWN
          /\ cloud' = [cloud EXCEPT !.instances[i].state = TERMINATED,
                                    !.instances[i].public_dns_name = 0]
    /\ UNCHANGED <<ledger, pem_file, external_ip, pc, task, args, current_data,
                   resource_data, loc, returncode, err, nOps, faults, hist, patches>>

(***************************************************************************)
(* Ingress rules (SSHProtocol.add_ingress_rule, check_ingress_ip).         *)
(***************************************************************************)
IngressResults == {"None", "Added", "ValueError", "ClientError"}

\* ret is what the call does: returns None, returns the added IP, or raises
add_ingress_rule(security_group_id, ip, whitelist, ret) ==
    IF check_ip_address_type(ip) = "ValueError"
    THEN ret = "ValueError" /\ UNCHANGED <<cloud, faults>>
    ELSE \/ /\ ret = "ClientError"
            /\ \/ Fault
               \/ cloud.sg.id # security_group_id /\ UNCHANGED faults
            /\ UNCHANGED cloud
         \/ /\ cloud.sg.id = security_group_id
            /\ IngressPermission(ip, whitelist) \in cloud.sg.rules
            /\ ret = "None"
            /\ UNCHANGED <<cloud, faults>>
         \/ /\ cloud.sg.id = security_group_id
            /\ IngressPermission(ip, whitelist) \notin cloud.sg.rules
            /\ ret = "Added"
            /\ cloud' = [cloud EXCEPT !.sg.rules = @ \cup {IngressPermission(ip, whitelist)}]
            /\ UNCHANGED faults

check_ingress_ip(security_group_id, whitelist, ret) ==
    \/ /\ ret = "ClientError" /\ Fault /\ UNCHANGED cloud
    \/ /\ cloud.sg.id # security_group_id
       /\ ret = "ValueError"
       /\ UNCHANGED <<cloud, faults>>
    \/ /\ cloud.sg.id = security_group_id
       /\ check_ip_address_type(external_ip) = "ValueError"
       /\ ret = "ValueError"
       /\ UNCHANGED <<cloud, faults>>
    \/ /\ cloud.sg.id = security_group_id
       /\ check_ip_address_type(external_ip) # "ValueError"
       /\ IF ip_allowed(cloud.sg.rules, external_ip, whitelist)
          THEN ret = "None" /\ UNCHANGED <<cloud, faults>>
          ELSE add_ingress_rule(security_group_id, external_ip, whitelist, ret)

(***************************************************************************)
(* A command: agent construction (Ec2.__init__), then apply, run or delete *)
(***************************************************************************)
Tasks == {"apply", "run", "delete"}
Protocols == {"ssh", "ssm"}

\* create_resources taking the record of the ledger to be empty
current_resources_ignored == EmptyMap

current_resources == current_data.resources
current_files == current_data.files

Start(t, protocol, whitelist_all, no_delete_failure, no_delete_success) ==
    /\ pc = "idle"
    /\ nOps < MaxOps
    /\ nOps' = nOps + 1
    /\ ledger' = Ec2Init(ledger, instance_name)
    /\ task' = t
    /\ args' = [protocol |-> protocol, whitelist_all |-> whitelist_all,
                no_delete_failure |-> no_delete_failure,
                no_delete_success |-> no_delete_success]
    /\ current_data' = ledger'.json[instance_name]
    /\ resource_data' = EmptyMap
    /\ loc' = NoLoc
    /\ returncode' = -1
    /\ err' = "none"
    /\ hist' = [NoHist EXCEPT !.start = [ledger |-> ledger', cloud |-> cloud,
                                         pem_file |-> pem_file, faults |-> faults]]
    /\ pc' = IF t = "apply" THEN (IF protocol = "ssh" THEN "ssh_key_pair" ELSE "ssm_role")
             ELSE IF t = "run" THEN (IF protocol = "ssh" THEN "ssh_run" ELSE "ssm_run")
             ELSE "delete"
    /\ UNCHANGED <<cloud, pem_file, external_ip, faults, patches>>

StartCommand ==
    \E t \in Tasks, protocol \in Protocols, whitelist_all \in BOOLEAN,
       no_delete_failure \in BOOLEAN, no_delete_success \in BOOLEAN :
        \* flags the command does not read are left at their defaults
        /\ t # "run" => ~no_delete_failure /\ ~no_delete_success
        /\ t = "delete" => protocol = "ssh"
        /\ (t = "delete" \/ protocol = "ssm") => ~whitelist_all
        /\ Start(t, protocol, whitelist_all, no_delete_failure, no_delete_success)

\* the process exits
Exit ==
    /\ pc = "done"
    /\ pc' = "idle"
    /\ UNCHANGED <<cloud, ledger, pem_file, external_ip, task, args, current_data,
                   resource_data, loc, returncode, err, nOps, faults, hist, patches>>

\* create_resources raises e: apply goes to its first except block
Raise(e) ==
    /\ err' = e
    /\ pc' = "apply_except"

Count(kind) == [hist EXCEPT !.creates[kind] = @ + 1]

(***************************************************************************)
(* SSHProtocol.create_resources                                            *)
(***************************************************************************)
KeyPairData ==
    [resources |-> (KEY_PAIR :> instance_name), files |-> (PEM_KEY_PATH :> "pem")]

\* AwsMixin.create_key_pair, or the key pair of the ledger
SshKeyPair ==
    /\ pc = "ssh_key_pair"
    /\ IF IsNone(current_resources, KEY_PAIR)
       THEN /\ hist' = Count("key_pair")
            /\ \/ /\ Fault /\ Raise("ClientError")
                  /\ UNCHANGED <<cloud, pem_file, resource_data>>
               \/ /\ cloud.key_pair /\ Raise("ClientError")
                  /\ UNCHANGED <<cloud, pem_file, resource_data, faults>>
               \/ /\ ~cloud.key_pair /\ pem_file /\ Raise("PermissionError")
                  \* the key pair is created, the write fails, the key pair is deleted
                  /\ UNCHANGED <<cloud, pem_file, resource_data, faults>>
               \/ /\ ~cloud.key_pair /\ ~pem_file
                  /\ cloud' = [cloud EXCEPT !.key_pair = TRUE]
                  /\ pem_file' = TRUE
                  /\ resource_data' = KeyPairData
                  /\ pc' = "ssh_security_group"
                  /\ UNCHANGED <<err, faults>>
       ELSE /\ IF IsNone(current_files, PEM_KEY_PATH)
               THEN Raise("KeyError") /\ UNCHANGED resource_data
               ELSE /\ resource_data' = KeyPairData
                    /\ pc' = "ssh_security_group"
                    /\ UNCHANGED err
            /\ UNCHANGED <<cloud, pem_file, faults, hist>>
    /\ UNCHANGED <<ledger, external_ip, task, args, current_data, loc, returncode,
                   nOps, patches>>

WithSecurityGroup(id) ==
    [resource_data EXCEPT !.resources = DictUpdate(@, SECURITY_GROUP_ID :> id)]

\* create_new_security_group, or check_ingress_ip on the group of the ledger
SshSecurityGroup ==
    /\ pc = "ssh_security_group"
    /\ IF IsNone(current_resources, SECURITY_GROUP_ID)
       THEN /\ hist' = Count("security_group")
            /\ \/ /\ Fault /\ Raise("ClientError")
                  /\ UNCHANGED <<cloud, resource_data, loc>>
               \/ /\ cloud.sg.id # 0 /\ Raise("ClientError")
                  /\ UNCHANGED <<cloud, resource_data, loc, faults>>
               \/ /\ cloud.sg.id = 0
                  /\ check_ip_address_type(external_ip) = "ValueError"
                  \* the group is created, add_ingress_rule raises, the group is deleted
                  /\ cloud' = [cloud EXCEPT !.sg_count = @ + 1]
                  /\ Raise("ValueError")
                  /\ UNCHANGED <<resource_data, loc, faults>>
               \/ /\ cloud.sg.id = 0
                  /\ check_ip_address_type(external_ip) # "ValueError"
                  /\ Fault
                  \* authorize_security_group_ingress raises, the group is deleted
                  /\ cloud' = [cloud EXCEPT !.sg_count = @ + 1]
                  /\ Raise("ClientError")
                  /\ UNCHANGED <<resource_data, loc>>
               \/ /\ cloud.sg.id = 0
                  /\ check_ip_address_type(external_ip) # "ValueError"
                  /\ cloud' = [cloud EXCEPT
                        !.sg_count = @ + 1,
                        !.sg = [id |-> cloud.sg_count + 1,
                                rules |-> {IngressPermission(external_ip, args.whitelist_all)}]]
                  /\ loc' = [loc EXCEPT !.security_group_id = cloud.sg_count + 1]
                  /\ resource_data' = WithSecurityGroup(cloud.sg_count + 1)
                  /\ pc' = "ssh_instance"
                  /\ UNCHANGED <<err, faults>>
       ELSE /\ \E ret \in IngressResults :
                 /\ check_ingress_ip(current_resources[SECURITY_GROUP_ID],
                                     args.whitelist_all, ret)
                 /\ IF ret \in {"ValueError", "ClientError"}
                    THEN Raise(ret) /\ UNCHANGED <<resource_data, loc>>
                    ELSE /\ loc' = [loc EXCEPT !.security_group_id =
                                        current_resources[SECURITY_GROUP_ID]]
                         /\ resource_data' =
                                WithSecurityGroup(current_resources[SECURITY_GROUP_ID])
                         /\ pc' = "ssh_instance"
                         /\ UNCHANGED err
            /\ UNCHANGED hist
    /\ UNCHANGED <<ledger, pem_file, external_ip, task, args, current_data,
                   returncode, nOps, patches>>

NewInstance(key_name, sgid) ==
    [state |-> PENDING, key_name |-> key_name, sg |-> sgid,
     public_dns_name |-> 0, profile |-> FALSE]

\* run_instances; with an instance in the ledger the else branch reads the
\* local instance_id, which nothing has assigned
SshInstance ==
    /\ pc = "ssh_instance"
    /\ IF IsNone(current_resources, INSTANCE_ID)
       THEN /\ hist' = Count("instance")
            /\ \/ /\ Fault /\ Raise("ClientError") /\ UNCHANGED <<cloud, loc>>
               \/ /\ ~cloud.key_pair \/ cloud.sg.id # loc.security_group_id
                  /\ Raise("ClientError")
                  /\ UNCHANGED <<cloud, loc, faults>>
               \/ /\ cloud.key_pair /\ cloud.sg.id = loc.security_group_id
                  /\ cloud' = [cloud EXCEPT !.instances =
                        Append(@, NewInstance(instance_name, loc.security_group_id))]
                  /\ loc' = [loc EXCEPT !.instance_id = Len(cloud.instances) + 1]
                  /\ pc' = "ssh_check"
                  /\ UNCHANGED <<err, faults>>
       ELSE /\ Raise("UnboundLocalError")
            /\ UNCHANGED <<cloud, loc, faults, hist>>
    /\ UNCHANGED <<ledger, pem_file, external_ip, task, args, current_data,
                   resource_data, returncode, nOps, patches>>

\* resp = self.check_instance_data(instance_id) and the branch on it
SshCheckInstance ==
    /\ pc = "ssh_check"
    /\ \/ /\ Fault /\ Raise("ClientError") /\ UNCHANGED loc
       \/ \* describe_instances does not list the instance: resp is None
          /\ Fault /\ Raise("AttributeError") /\ UNCHANGED loc
       \/ /\ UNCHANGED faults
          /\ LET resp == check_instance_data(cloud, loc.instance_id)
             IN  /\ loc' = [loc EXCEPT !.resp = resp]
                 /\ IF ~resp.found THEN Raise("AttributeError")
                    ELSE IF resp.key_name # instance_name THEN Raise("ValueError")
                    ELSE /\ pc' = IF resp.state = PENDING THEN "ssh_pending"
                                  ELSE IF resp.state \in {STOPPED, STOPPING}
                                       THEN "ssh_restart"
                                       ELSE "ssh_write"
                         /\ UNCHANGED err
    /\ UNCHANGED <<cloud, ledger, pem_file, external_ip, task, args, current_data,
                   resource_data, returncode, nOps, hist, patches>>

\* while resp["state"] == State.PENDING: resp = self.check_instance_data(...)
SshPending ==
    /\ pc = "ssh_pending"
    /\ \/ /\ Fault /\ Raise("ClientError") /\ UNCHANGED loc
       \/ /\ UNCHANGED faults
          /\ LET resp == check_instance_data(cloud, loc.instance_id)
             IN  /\ loc' = [loc EXCEPT !.resp = resp]
                 /\ IF ~resp.found THEN Raise("TypeError")
                    ELSE /\ pc' = IF resp.state = PENDING THEN "ssh_pending"
                                  ELSE "ssh_write"
                         /\ UNCHANGED err
    /\ UNCHANGED <<cloud, ledger, pem_file, external_ip, task, args, current_data,
                   resource_data, returncode, nOps, hist, patches>>

\* the record update naming the instance id alone
WithInstanceIdOnly(instance_id, resp) ==
    [resource_data EXCEPT !.resources = DictUpdate(@, INSTANCE_ID :> instance_id)]

WithInstance(instance_id, resp) ==
    [resource_data EXCEPT !.resources =
        DictUpdate(@, (INSTANCE_ID :> instance_id)
                      @@ (PUBLIC_DNS_NAME :> resp.public_dns_name)
                      @@ (RES_STATE :> resp.state))]

\* SshWrite without the update_json call of apply
SshWriteNoLedger ==
    /\ pc = "ssh_write"
    /\ resource_data' = WithInstance(loc.instance_id, loc.resp)
    /\ hist' = [hist EXCEPT !.stage = "created"]
    /\ pc' = "ssh_setup"
    /\ UNCHANGED <<cloud, ledger, pem_file, external_ip, task, args, current_data, loc,
                   returncode, err, nOps, faults, patches>>

\* create_resources returns; apply merges the returned data into the ledger
SshWrite ==
    /\ pc = "ssh_write"
    /\ resource_data' = WithInstance(loc.instance_id, loc.resp)
    /\ ledger' = update_json(ledger, instance_name, resource_data')
    /\ hist' = [hist EXCEPT !.stage = "created"]
    /\ pc' = "ssh_setup"
    /\ UNCHANGED <<cloud, pem_file, external_ip, task, args, current_data, loc,
                   returncode, err, nOps, faults, patches>>

\* AwsMixin.restart_instance on a stopped instance: start_instances is given
\* InstanceIds=instance_id, a string where the client requires a list
RestartInstance ==
    /\ pc \in {"ssh_restart", "ssm_restart"}
    /\ Raise("ParamValidationError")
    /\ UNCHANGED <<cloud, ledger, pem_file, external_ip, task, args, current_data,
                   resource_data, loc, returncode, nOps, faults, hist, patches>>

(***************************************************************************)
(* SSHProtocol.setup_instance and _execute_apply_script                    *)
(***************************************************************************)
ScriptCodes == {0, 1, 8}

\* the command line built from the data create_resources returned
ApplyCmd(data) ==
    [p |-> data.files[PEM_KEY_PATH], n |-> data.resources[PUBLIC_DNS_NAME]]

\* setup_instance raises e: apply goes to its second except block
SetupRaise(e) ==
    /\ err' = e
    /\ loc' = [loc EXCEPT !.after = "raise"]
    /\ pc' = "rb_read"

\* setup_instance returns rc: apply deletes the resources unless rc = 0
SetupReturn(rc) ==
    /\ returncode' = rc
    /\ loc' = [loc EXCEPT !.after = "return"]
    /\ pc' = IF rc # 0 THEN "rb_read" ELSE "done"

\* first execution of the apply script
SshSetup ==
    /\ pc = "ssh_setup"
    /\ \E rc \in ScriptCodes :
          /\ hist' = [hist EXCEPT !.execs = Append(@, [cmd |-> ApplyCmd(resource_data),
                                                       rc |-> rc])]
          /\ IF rc = 8
             THEN pc' = "ssh_retry_ingress" /\ UNCHANGED <<returncode, loc>>
             ELSE SetupReturn(rc)
    /\ UNCHANGED <<cloud, ledger, pem_file, external_ip, task, args, current_data,
                   resource_data, err, nOps, faults, patches>>

\* return code 8: added_ip = self.check_ingress_ip(...)
SshRetryIngress ==
    /\ pc = "ssh_retry_ingress"
    /\ \E ret \in IngressResults :
          /\ check_ingress_ip(resource_data.resources[SECURITY_GROUP_ID],
                              args.whitelist_all, ret)
          /\ IF ret \in {"ValueError", "ClientError"}
             THEN SetupRaise(ret)
             ELSE /\ loc' = [loc EXCEPT !.added_ip = ret]
                  /\ pc' = IF ret = "None" THEN "ssh_escalate" ELSE "ssh_exec2"
                  /\ UNCHANGED err
    /\ hist' = [hist EXCEPT !.checks = @ + 1]
    /\ UNCHANGED <<ledger, pem_file, external_ip, task, args, current_data,
                   resource_data, returncode, nOps, patches>>

\* added_ip is None: whitelist_all = True and add_ingress_rule(..., "0.0.0.0")
SshEscalate ==
    /\ pc = "ssh_escalate"
    /\ args' = [args EXCEPT !.whitelist_all = TRUE]
    /\ hist' = [hist EXCEPT !.escalated = TRUE]
    /\ \E ret \in IngressResults :
          /\ add_ingress_rule(resource_data.resources[SECURITY_GROUP_ID], IpZero, TRUE, ret)
          /\ IF ret \in {"ValueError", "ClientError"}
             THEN SetupRaise(ret)
             ELSE pc' = "ssh_exec2" /\ UNCHANGED <<err, loc>>
    /\ UNCHANGED <<ledger, pem_file, external_ip, task, current_data,
                   resource_data, returncode, nOps, patches>>

\* SshExec2 treating a second exit code 8 like the first
SshExec2Again ==
    /\ pc = "ssh_exec2"
    /\ \E rc \in ScriptCodes :
          /\ hist' = [hist EXCEPT !.execs = Append(@, [cmd |-> ApplyCmd(resource_data),
                                                       rc |-> rc])]
          /\ IF rc = 8 /\ Len(hist.execs) < 3
             THEN pc' = "ssh_retry_ingress" /\ UNCHANGED <<returncode, loc>>
             ELSE SetupReturn(rc)
    /\ UNCHANGED <<cloud, ledger, pem_file, external_ip, task, args, current_data,
                   resource_data, err, nOps, faults, patches>>

\* second execution of the apply script
SshExec2 ==
    /\ pc = "ssh_exec2"
    /\ \E rc \in ScriptCodes :
          /\ hist' = [hist EXCEPT !.execs = Append(@, [cmd |-> ApplyCmd(resource_data),
                                                       rc |-> rc])]
          /\ SetupReturn(rc)
    /\ UNCHANGED <<cloud, ledger, pem_file, external_ip, task, args, current_data,
                   resource_data, err, nOps, faults, patches>>

(***************************************************************************)
(* SSMProtocol.create_resources and setup_instance                         *)
(***************************************************************************)
\* create_instance_profile going to the policies without creating the role
SsmRoleSkipped ==
    /\ pc = "ssm_role"
    /\ hist' = Count("role")
    /\ resource_data' = [resources |-> (ROLE_ARN :> "role-arn")]
    /\ pc' = "ssm_policies"
    /\ UNCHANGED <<cloud, ledger, pem_file, external_ip, task, args, current_data, loc,
                   returncode, err, nOps, faults, patches>>

\* create_instance_profile: create_role
SsmRole ==
    /\ pc = "ssm_role"
    /\ IF IsNone(current_resources, INSTANCE_PROFILE_ARN)
       THEN /\ hist' = Count("role")
            /\ \/ /\ Fault /\ Raise("ClientError") /\ UNCHANGED <<cloud, resource_data>>
               \/ /\ cloud' = [cloud EXCEPT !.role = TRUE]
                  /\ resource_data' = [resources |-> (ROLE_ARN :> "role-arn")]
                  /\ pc' = "ssm_policies"
                  /\ UNCHANGED <<err, faults>>
       ELSE /\ IF IsNone(current_resources, ROLE_ARN)
               THEN Raise("KeyError") /\ UNCHANGED resource_data
               ELSE /\ resource_data' =
                          [resources |-> (ROLE_ARN :> current_resources[ROLE_ARN])
                                         @@ (INSTANCE_PROFILE_ARN :>
                                               current_resources[INSTANCE_PROFILE_ARN])]
                    /\ pc' = "ssm_instance"
                    /\ UNCHANGED err
            /\ UNCHANGED <<cloud, faults, hist>>
    /\ UNCHANGED <<ledger, pem_file, external_ip, task, args, current_data, loc,
                   returncode, nOps, patches>>

Max(a, b) == IF a > b THEN a ELSE b

\* attach_policies_to_role: three attach_role_policy calls
SsmPolicies ==
    /\ pc = "ssm_policies"
    /\ \/ \E k \in 0..2 :
            /\ Fault
            /\ cloud' = [cloud EXCEPT !.policies = Max(@, k)]
            /\ Raise("ClientError")
       \/ /\ cloud' = [cloud EXCEPT !.policies = 3]
          /\ pc' = "ssm_profile"
          /\ UNCHANGED <<err, faults>>
    /\ UNCHANGED <<ledger, pem_file, external_ip, task, args, current_data,
                   resource_data, loc, returncode, nOps, hist, patches>>

\* create_instance_profile and add_role_to_instance_profile
SsmProfile ==
    /\ pc = "ssm_profile"
    /\ hist' = Count("instance_profile")
    /\ \/ /\ Fault /\ Raise("ClientError") /\ UNCHANGED <<cloud, resource_data>>
       \/ /\ ~cloud.profile_role
          /\ Fault
          /\ cloud' = [cloud EXCEPT !.profile = TRUE]
          /\ Raise("ClientError")
          /\ UNCHANGED resource_data
       \/ /\ cloud' = [cloud EXCEPT !.profile = TRUE, !.profile_role = TRUE]
          /\ resource_data' = [resource_data EXCEPT !.resources =
                DictUpdate(@, INSTANCE_PROFILE_ARN :> "profile-arn")]
          /\ pc' = "ssm_instance"
          /\ UNCHANGED <<err, faults>>
    /\ UNCHANGED <<ledger, pem_file, external_ip, task, args, current_data, loc,
                   returncode, nOps, patches>>

\* run_instances without key pair and security group, or the instance of the ledger
SsmInstance ==
    /\ pc = "ssm_instance"
    /\ IF IsNone(current_resources, INSTANCE_ID)
       THEN /\ hist' = Count("instance")
            /\ \/ /\ Fault /\ Raise("ClientError") /\ UNCHANGED <<cloud, loc>>
               \/ /\ cloud' = [cloud EXCEPT !.instances = Append(@, NewInstance("", 0))]
                  /\ loc' = [loc EXCEPT !.instance_id = Len(cloud.instances) + 1]
                  /\ pc' = "ssm_associate"
                  /\ UNCHANGED <<err, faults>>
       ELSE /\ loc' = [loc EXCEPT !.instance_id = current_resources[INSTANCE_ID]]
            /\ pc' = "ssm_check"
            /\ UNCHANGED <<cloud, err, faults, hist>>
    /\ UNCHANGED <<ledger, pem_file, external_ip, task, args, current_data,
                   resource_data, returncode, nOps, patches>>

\* associate_iam_instance_profile, retried on IncorrectInstanceState and
\* InvalidParameterValue
SsmAssociate ==
    /\ pc = "ssm_associate"
    /\ \/ /\ Fault /\ Raise("ClientError") /\ UNCHANGED cloud
       \/ \* a transient answer: sleep and try again
          /\ cloud.instances[loc.instance_id].state = PENDING
          /\ UNCHANGED <<cloud, pc, err, faults>>
       \/ /\ cloud' = [cloud EXCEPT !.instances[loc.instance_id].profile = TRUE]
          /\ pc' = "ssm_check"
          /\ UNCHANGED <<err, faults>>
    /\ UNCHANGED <<ledger, pem_file, external_ip, task, args, current_data,
                   resource_data, loc, returncode, nOps, hist, patches>>

\* instance_data = self.check_instance_data(instance_id) and the branch on it
SsmCheckInstance ==
    /\ pc \in {"ssm_check", "ssm_pending"}
    /\ \/ /\ Fault /\ Raise("ClientError") /\ UNCHANGED loc
       \/ \* describe_instances does not list the instance: instance_data is None
          /\ Fault /\ Raise("ValueError") /\ UNCHANGED loc
       \/ /\ UNCHANGED faults
          /\ LET resp == check_instance_data(cloud, loc.instance_id)
             IN  /\ loc' = [loc EXCEPT !.resp = resp]
                 /\ IF ~resp.found THEN Raise("ValueError")
                    ELSE /\ pc' = IF resp.state = PENDING THEN "ssm_pending"
                                  ELSE IF pc = "ssm_check"
                                          /\ resp.state \in {STOPPED, STOPPING}
                                       THEN "ssm_restart"
                                       ELSE "ssm_log_group"
                         /\ UNCHANGED err
    /\ UNCHANGED <<cloud, ledger, pem_file, external_ip, task, args, current_data,
                   resource_data, returncode, nOps, hist, patches>>

\* the instance is recorded, the log group is created or reused,
\* create_resources returns and apply merges the data into the ledger
SsmLogGroup ==
    /\ pc = "ssm_log_group"
    /\ LET data == [WithInstance(loc.instance_id, loc.resp) EXCEPT !.resources =
                        DictUpdate(@, LOG_GROUP :> "logs")]
       IN IF IsNone(current_resources, LOG_GROUP)
          THEN \/ /\ Fault /\ Raise("ClientError")
                  /\ resource_data' = WithInstance(loc.instance_id, loc.resp)
                  /\ hist' = Count("log_group")
                  /\ UNCHANGED <<cloud, ledger>>
               \/ /\ cloud.log_group /\ Raise("ClientError")
                  /\ resource_data' = WithInstance(loc.instance_id, loc.resp)
                  /\ hist' = Count("log_group")
                  /\ UNCHANGED <<cloud, ledger, faults>>
               \/ /\ ~cloud.log_group
                  /\ cloud' = [cloud EXCEPT !.log_group = TRUE]
                  /\ resource_data' = data
                  /\ ledger' = update_json(ledger, instance_name, data)
                  /\ hist' = [Count("log_group") EXCEPT !.stage = "created"]
                  /\ pc' = "ssm_setup"
                  /\ UNCHANGED <<err, faults>>
          ELSE /\ resource_data' = data
               /\ ledger' = update_json(ledger, instance_name, data)
               /\ hist' = [hist EXCEPT !.stage = "created"]
               /\ pc' = "ssm_setup"
               /\ UNCHANGED <<cloud, err, faults>>
    /\ UNCHANGED <<pem_file, external_ip, task, args, current_data, loc,
                   returncode, nOps, patches>>

\* setup_instance: the command list is dispatched and its status awaited
SsmSetup ==
    /\ pc = "ssm_setup"
    /\ \/ /\ Fault /\ SetupRaise("ClientError") /\ UNCHANGED returncode
       \/ /\ \E rc \in {0, 1} : SetupReturn(rc)
          /\ UNCHANGED <<err, faults>>
    /\ UNCHANGED <<cloud, ledger, pem_file, external_ip, task, args, current_data,
                   resource_data, nOps, hist, patches>>

(***************************************************************************)
(* Deleting one resource: the calls shared by Ec2.delete and               *)
(* Ec2.delete_resources_in_json.  res is what the step does: "ok", or the  *)
(* exception it raises ("NotFound" is the provider's error for a resource  *)
(* that does not exist, "ClientError" any other provider error).           *)
(***************************************************************************)
DeleteErrors == {"KeyError", "ClientError", "NotFound", "FileNotFoundError", "DeleteConflict"}

\* AwsMixin.delete_key_pair_and_unlink_path
delete_key_pair_and_unlink_path(files, res) ==
    IF IsNone(files, PEM_KEY_PATH)
    THEN res = "KeyError" /\ UNCHANGED <<cloud, pem_file, faults>>
    ELSE \/ /\ res = "ClientError" /\ Fault /\ UNCHANGED <<cloud, pem_file>>
         \/ /\ ~pem_file
            /\ res = "FileNotFoundError"
            /\ cloud' = [cloud EXCEPT !.key_pair = FALSE]
            /\ UNCHANGED <<pem_file, faults>>
         \/ /\ pem_file
            /\ res = "ok"
            /\ cloud' = [cloud EXCEPT !.key_pair = FALSE]
            /\ pem_file' = FALSE
            /\ UNCHANGED faults

\* AwsMixin.detach_and_delete_iam_role
detach_and_delete_iam_role(res) ==
    IF ~cloud.role
    THEN res = "NotFound" /\ UNCHANGED <<cloud, faults>>
    ELSE \/ /\ res = "ClientError" /\ Fault
            /\ \/ UNCHANGED cloud
               \/ cloud' = [cloud EXCEPT !.policies = 0]
               \/ cloud' = [cloud EXCEPT !.policies = 0, !.profile_role = FALSE]
         \/ /\ res = "ok"
            /\ cloud' = [cloud EXCEPT !.policies = 0, !.profile_role = FALSE,
                                      !.role = FALSE]
            /\ UNCHANGED faults

\* iam_client.delete_instance_profile
delete_instance_profile(res) ==
    IF ~cloud.profile THEN res = "NotFound" /\ UNCHANGED <<cloud, faults>>
    ELSE IF cloud.profile_role THEN res = "DeleteConflict" /\ UNCHANGED <<cloud, faults>>
    ELSE \/ res = "ClientError" /\ Fault /\ UNCHANGED cloud
         \/ /\ res = "ok"
            /\ cloud' = [cloud EXCEPT !.profile = FALSE]
            /\ UNCHANGED faults

\* ec2_client.terminate_instances(InstanceIds=[instance_id])
delete_instance(instance_id, res) ==
    IF instance_id \notin 1..Len(cloud.instances)
    THEN res = "NotFound" /\ UNCHANGED <<cloud, faults>>
    ELSE \/ res = "ClientError" /\ Fault /\ UNCHANGED cloud
         \/ /\ res = "ok"
            /\ cloud' = terminate_instances(cloud, instance_id)
            /\ UNCHANGED faults

\* the loop giving up at the first DependencyViolation
delete_security_group_no_retry(security_group_id, res) ==
    IF cloud.sg.id # security_group_id
    THEN res = "NotFound" /\ UNCHANGED <<cloud, faults>>
    ELSE IF DependencyViolation(cloud, security_group_id)
    THEN res = "ClientError" /\ UNCHANGED <<cloud, faults>>
    ELSE \/ res = "ClientError" /\ Fault /\ UNCHANGED cloud
         \/ /\ res = "ok"
            /\ cloud' = [cloud EXCEPT !.sg = [id |-> 0, rules |-> {}]]
            /\ UNCHANGED faults

\* AwsMixin.resolve_dependency_violation_and_delete_security_group; "retry"
\* is one turn of its loop that met DependencyViolation
delete_security_group(security_group_id, res) ==
    IF cloud.sg.id # security_group_id
    THEN res = "NotFound" /\ UNCHANGED <<cloud, faults>>
    ELSE IF DependencyViolation(cloud, security_group_id)
    THEN res = "retry" /\ UNCHANGED <<cloud, faults>>
    ELSE \/ res = "ClientError" /\ Fault /\ UNCHANGED cloud
         \/ /\ res = "ok"
            /\ cloud' = [cloud EXCEPT !.sg = [id |-> 0, rules |-> {}]]
            /\ UNCHANGED faults

DeleteResults == DeleteErrors \cup {"ok", "retry"}

\* the order both functions delete in
\* teardown going through the kinds in the reverse of the creation order
DeleteOrderReversed ==
    <<INSTANCE_ID, INSTANCE_PROFILE_ARN, ROLE_ARN, SECURITY_GROUP_ID, KEY_PAIR>>

DeleteOrder == <<KEY_PAIR, ROLE_ARN, INSTANCE_PROFILE_ARN, INSTANCE_ID, SECURITY_GROUP_ID>>

DeleteStep(data, kind, res) ==
    IF kind = KEY_PAIR THEN delete_key_pair_and_unlink_path(data.files, res)
    ELSE IF kind = ROLE_ARN
         THEN detach_and_delete_iam_role(res) /\ UNCHANGED pem_file
    ELSE IF kind = INSTANCE_PROFILE_ARN
         THEN delete_instance_profile(res) /\ UNCHANGED pem_file
    ELSE IF kind = INSTANCE_ID
         THEN delete_instance(data.resources[INSTANCE_ID], res) /\ UNCHANGED pem_file
    ELSE delete_security_group(data.resources[SECURITY_GROUP_ID], res)
         /\ UNCHANGED pem_file

(***************************************************************************)
(* Ec2.apply: the except block around create_resources, and                *)
(* Ec2.delete_resources_in_json                                            *)
(***************************************************************************)
\* except Exception: update_json(self.protocol.resource_data), then the deletion
ApplyExcept ==
    /\ pc = "apply_except"
    /\ IF update_json_raises(ledger, instance_name, resource_data)
       THEN err' = "KeyError" /\ pc' = "done" /\ UNCHANGED <<ledger, loc>>
       ELSE /\ ledger' = update_json(ledger, instance_name, resource_data)
            /\ loc' = [loc EXCEPT !.after = "raise"]
            /\ pc' = "rb_read"
            /\ UNCHANGED err
    /\ UNCHANGED <<cloud, pem_file, external_ip, task, args, current_data,
                   resource_data, returncode, nOps, faults, hist, patches>>

\* delete_resources_in_json reads the record of the ledger, or returns at
\* once when there is no ledger file
RbRead ==
    /\ pc = "rb_read"
    /\ IF ~ledger.is_file
       THEN pc' = "done" /\ UNCHANGED loc
       ELSE /\ loc' = [loc EXCEPT !.json_data = ledger.json[instance_name], !.step = 1]
            /\ pc' = "rollback"
    /\ UNCHANGED <<cloud, ledger, pem_file, external_ip, task, args, current_data,
                   resource_data, returncode, err, nOps, faults, hist, patches>>

\* one resource kind of delete_resources_in_json
RollbackStep ==
    /\ pc = "rollback"
    /\ loc.step \in 1..Len(DeleteOrder)
    /\ LET kind == DeleteOrder[loc.step]
       IN IF kind \notin DOMAIN loc.json_data.resources
          THEN /\ loc' = [loc EXCEPT !.step = @ + 1]
               /\ UNCHANGED <<cloud, pem_file, faults, hist, err, pc>>
          ELSE \E res \in DeleteResults :
                 /\ DeleteStep(loc.json_data, kind, res)
                 /\ IF res = "retry" THEN UNCHANGED <<loc, hist, err, pc>>
                    ELSE IF res = "ok"
                    THEN /\ loc' = [loc EXCEPT !.step = @ + 1]
                         /\ hist' = [hist EXCEPT !.deletes = Append(@, kind)]
                         /\ UNCHANGED <<err, pc>>
                    ELSE /\ err' = res
                         /\ pc' = "done"
                         /\ hist' = [hist EXCEPT
                               !.deletes = IF res = "KeyError" THEN @ ELSE Append(@, kind),
                               !.rb_fault = (res = "ClientError")]
                         /\ UNCHANGED loc
    /\ UNCHANGED <<ledger, external_ip, task, args, current_data, resource_data,
                   returncode, nOps, patches>>

\* os.unlink(json_path): the ledger file goes, then apply returns or re-raises
RbUnlink ==
    /\ pc = "rollback"
    /\ loc.step = Len(DeleteOrder) + 1
    /\ ledger' = NoFile
    /\ pc' = "done"
    /\ UNCHANGED <<cloud, pem_file, external_ip, task, args, current_data,
                   resource_data, loc, returncode, err, nOps, faults, hist, patches>>

(***************************************************************************)
(* Ec2.delete                                                              *)
(***************************************************************************)
Remove(json, name) == [k \in DOMAIN json \ {name} |-> json[k]]

\* Ec2DeleteStep taking each deleted kind out of the ledger record at once
Ec2DeleteStepEager ==
    /\ pc = "delete"
    /\ loc.step \in 1..Len(DeleteOrder)
    /\ LET kind == DeleteOrder[loc.step]
       IN IF IsNone(current_resources, kind)
          THEN /\ loc' = [loc EXCEPT !.step = @ + 1]
               /\ UNCHANGED <<cloud, ledger, pem_file, faults, hist, err, pc>>
          ELSE \E res \in DeleteResults :
                 /\ DeleteStep(current_data, kind, res)
                 /\ IF res = "retry" THEN UNCHANGED <<ledger, loc, hist, err, pc>>
                    ELSE IF res = "ok"
                    THEN /\ loc' = [loc EXCEPT !.step = @ + 1]
                         /\ hist' = [hist EXCEPT !.deletes = Append(@, kind)]
                         /\ ledger' = write_json(
                               [ledger.json EXCEPT ![instance_name].resources =
                                   Remove(@, kind)])
                         /\ UNCHANGED <<err, pc>>
                    ELSE /\ err' = res
                         /\ pc' = "done"
                         /\ hist' = [hist EXCEPT
                               !.deletes = IF res = "KeyError" THEN @ ELSE Append(@, kind)]
                         /\ UNCHANGED <<ledger, loc>>
    /\ UNCHANGED <<external_ip, task, args, current_data, resource_data,
                   returncode, nOps, patches>>

\* one resource kind of Ec2.delete
Ec2DeleteStep ==
    /\ pc = "delete"
    /\ loc.step \in 1..Len(DeleteOrder)
    /\ LET kind == DeleteOrder[loc.step]
       IN IF IsNone(current_resources, kind)
          THEN /\ loc' = [loc EXCEPT !.step = @ + 1]
               /\ UNCHANGED <<cloud, pem_file, faults, hist, err, pc>>
          ELSE \E res \in DeleteResults :
                 /\ DeleteStep(current_data, kind, res)
                 /\ IF res = "retry" THEN UNCHANGED <<loc, hist, err, pc>>
                    ELSE IF res = "ok"
                    THEN /\ loc' = [loc EXCEPT !.step = @ + 1]
                         /\ hist' = [hist EXCEPT !.deletes = Append(@, kind)]
                         /\ UNCHANGED <<err, pc>>
                    ELSE /\ err' = res
                         /\ pc' = "done"
                         /\ hist' = [hist EXCEPT
                               !.deletes = IF res = "KeyError" THEN @ ELSE Append(@, kind)]
                         /\ UNCHANGED loc
    /\ UNCHANGED <<ledger, external_ip, task, args, current_data, resource_data,
                   returncode, nOps, patches>>

\* the record is removed from the ledger; delete returns 0 (the run task then
\* exits with the code of the run)
Ec2DeleteWrite ==
    /\ pc = "delete"
    /\ loc.step = Len(DeleteOrder) + 1
    /\ ledger' = IF ledger.is_file THEN write_json(Remove(ledger.json, instance_name))
                 ELSE ledger
    /\ returncode' = IF task = "run" THEN loc.exit ELSE 0
    /\ hist' = [hist EXCEPT !.stage = "deleted"]
    /\ pc' = "done"
    /\ UNCHANGED <<cloud, pem_file, external_ip, task, args, current_data,
                   resource_data, loc, err, nOps, faults, patches>>

(***************************************************************************)
(* Ec2.run, the protocols' run_entrypoint_on_instance, and RunTask.run     *)
(***************************************************************************)
\* RunReturn that does not read --no-delete-failure
RunReturnIgnoringFlag(rc, h) ==
    /\ hist' = [h EXCEPT !.run_rc = rc]
    /\ IF rc = 0 /\ args.no_delete_success
       THEN /\ returncode' = 0
            /\ pc' = "done"
            /\ UNCHANGED <<loc, current_data>>
       ELSE /\ loc' = [loc EXCEPT !.exit = IF rc # 0 THEN 1 ELSE 0, !.step = 1]
            /\ current_data' = ledger.json[instance_name]
            /\ pc' = "delete"
            /\ UNCHANGED returncode

\* RunTask.run after agent.run() returned rc; h is the history so far
RunReturn(rc, h) ==
    /\ hist' = [h EXCEPT !.run_rc = rc]
    /\ IF (rc # 0 /\ args.no_delete_failure) \/ (rc = 0 /\ args.no_delete_success)
       THEN /\ returncode' = IF rc # 0 THEN 1 ELSE 0
            /\ pc' = "done"
            /\ UNCHANGED <<loc, current_data>>
       ELSE /\ loc' = [loc EXCEPT !.exit = IF rc # 0 THEN 1 ELSE 0, !.step = 1]
            /\ current_data' = ledger.json[instance_name]
            /\ pc' = "delete"
            /\ UNCHANGED returncode

\* SSHProtocol.run_entrypoint_on_instance up to the ingress check
SshRun ==
    /\ pc = "ssh_run"
    /\ IF IsNone(current_files, PEM_KEY_PATH)
       THEN \* Path(None)
            /\ err' = "TypeError" /\ pc' = "done"
            /\ UNCHANGED <<cloud, faults, hist, loc, current_data, returncode>>
       ELSE IF IsNone(current_resources, INSTANCE_ID)
       THEN RunReturn(1, hist) /\ UNCHANGED <<cloud, faults, err>>
       ELSE IF IsNone(current_resources, SECURITY_GROUP_ID)
       THEN /\ pc' = "ssh_run_exec"
            /\ UNCHANGED <<cloud, faults, hist, loc, current_data, returncode, err>>
       ELSE \E ret \in IngressResults :
              /\ check_ingress_ip(current_resources[SECURITY_GROUP_ID],
                                  args.whitelist_all, ret)
              /\ IF ret \in {"ValueError", "ClientError"}
                 THEN err' = ret /\ pc' = "done"
                 ELSE pc' = "ssh_run_exec" /\ UNCHANGED err
              /\ UNCHANGED <<hist, loc, current_data, returncode>>
    /\ UNCHANGED <<ledger, pem_file, external_ip, task, args, resource_data,
                   nOps, patches>>

RunCmd(data) ==
    [p |-> data.files[PEM_KEY_PATH], n |-> data.resources[PUBLIC_DNS_NAME]]

\* the run script is executed once
SshRunExec ==
    /\ pc = "ssh_run_exec"
    /\ \E rc \in {0, 1} :
          RunReturn(rc, [hist EXCEPT !.execs =
                            Append(@, [cmd |-> RunCmd(current_data), rc |-> rc])])
    /\ UNCHANGED <<cloud, ledger, pem_file, external_ip, task, args,
                   resource_data, err, nOps, faults, patches>>

\* SSMProtocol.run_entrypoint_on_instance
SsmRun ==
    /\ pc = "ssm_run"
    /\ IF IsNone(current_resources, INSTANCE_ID) \/ IsNone(current_resources, LOG_GROUP)
       THEN RunReturn(1, hist) /\ UNCHANGED <<err, faults>>
       ELSE \/ /\ Fault
               /\ err' = "ClientError" /\ pc' = "done"
               /\ UNCHANGED <<hist, loc, current_data, returncode>>
            \/ /\ \E rc \in {0, 1} : RunReturn(rc, hist)
               /\ UNCHANGED <<err, faults>>
    /\ UNCHANGED <<cloud, ledger, pem_file, external_ip, task, args,
                   resource_data, nOps, patches>>

\* an instance is stopped from outside the tool
EnvInstanceStopped ==
    /\ pc = "idle"
    /\ \E i \in 1..Len(cloud.instances) :
          /\ cloud.instances[i].state = RUNNING
          /\ cloud' = [cloud EXCEPT !.instances[i].state = STOPPED,
                                    !.instances[i].public_dns_name = 0]
    /\ UNCHANGED <<ledger, pem_file, external_ip, pc, task, args, current_data,
                   resource_data, loc, returncode, err, nOps, faults, hist, patches>>

Next ==
    \/ StartCommand
    \/ Exit
    \/ EnvInstanceRunning
    \/ EnvInstanceTerminated
    \/ EnvInstanceStopped
    \/ SshKeyPair
    \/ SshSecurityGroup
    \/ SshInstance
    \/ SshCheckInstance
    \/ SshPending
    \/ SshWrite
    \/ RestartInstance
    \/ SshSetup
    \/ SshRetryIngress
    \/ SshEscalate
    \/ SshExec2
    \/ SsmRole
    \/ SsmPolicies
    \/ SsmProfile
    \/ SsmInstance
    \/ SsmAssociate
    \/ SsmCheckInstance
    \/ SsmLogGroup
    \/ SsmSetup
    \/ ApplyExcept
    \/ RbRead
    \/ RollbackStep
    \/ RbUnlink
    \/ Ec2DeleteStep
    \/ Ec2DeleteWrite
    \/ SshRun
    \/ SshRunExec
    \/ SsmRun

Spec == Init /\ [][Next]_vars

(***************************************************************************)
(* What a command started from, and what it ended in.                      *)
(***************************************************************************)
\* the record the command read from the ledger when it started
StartRecord == hist.start.ledger.json[instance_name]

NoFaultSinceStart == faults = hist.start.faults

LiveInstance(c) == \E i \in 1..Len(c.instances) : IsLive(c.instances[i])

ApplyFailed ==
    /\ task = "apply"
    /\ pc = "done"
    /\ err # "none" \/ returncode # 0

\* C1: when an apply has failed (create_resources raised, setup_instance
\* raised or returned non-zero) and has finished, no key pair, security group
\* or instance is live at the provider.  Runs in which the provider was made
\* to fail a call of the cleanup itself are left out.
C1_FailedApplyLeavesNothingLive ==
    (ApplyFailed /\ ~hist.rb_fault)
        => /\ ~cloud.key_pair
           /\ cloud.sg.id = 0
           /\ ~LiveInstance(cloud)

\* the record holds every resource kind of the protocol, the recorded
\* resources are live and the instance is RUNNING
FullyProvisioned(record, c, p, protocol) ==
    /\ INSTANCE_ID \in DOMAIN record.resources
    /\ record.resources[INSTANCE_ID] \in 1..Len(c.instances)
    /\ c.instances[record.resources[INSTANCE_ID]].state = RUNNING
    /\ IF protocol = "ssh"
       THEN /\ SshKinds \subseteq DOMAIN record.resources
            /\ PEM_KEY_PATH \in DOMAIN record.files
            /\ c.key_pair /\ p
            /\ c.sg.id = record.resources[SECURITY_GROUP_ID]
       ELSE /\ SsmKinds \subseteq DOMAIN record.resources
            /\ c.role /\ c.profile /\ c.profile_role /\ c.log_group

\* C2: an apply that starts from a fully populated record whose resources are
\* live (instance RUNNING), with no provider error, issues no create call,
\* gets through the resource stage without an exception, and leaves every
\* recorded identifier as it was.
C2_IdempotentApply ==
    (/\ task = "apply"
     /\ pc # "idle"
     /\ NoFaultSinceStart
     /\ FullyProvisioned(StartRecord, hist.start.cloud, hist.start.pem_file,
                         args.protocol))
        => /\ \A k \in CreateKinds : hist.creates[k] = 0
           /\ hist.stage # "created" => err = "none"
           /\ hist.stage = "created" /\ ledger.is_file
                => \A k \in DOMAIN StartRecord.resources :
                      /\ k \in DOMAIN ledger.json[instance_name].resources
                      /\ ledger.json[instance_name].resources[k] = StartRecord.resources[k]

\* an SSH apply that started from an empty record has finished, no provider
\* call failed, and the apply script ran and exited with 0
FreshSshApplySucceeded ==
    /\ task = "apply"
    /\ args.protocol = "ssh"
    /\ pc = "done"
    /\ DOMAIN StartRecord.resources = {}
    /\ DOMAIN StartRecord.files = {}
    /\ err # "ClientError"
    /\ Len(hist.execs) >= 1
    /\ \A i \in 1..Len(hist.execs) : hist.execs[i].rc = 0

\* C3: a fresh SSH apply in which every provider call and the apply script
\* succeed creates exactly one key pair, one security group holding exactly
\* one rule, for port 22, and one instance, returns 0, and leaves a ledger
\* record with the five SSH resource kinds and the PEM key path.
C3_FreshSshApply ==
    FreshSshApplySucceeded
        => /\ hist.creates["key_pair"] = 1
           /\ hist.creates["security_group"] = 1
           /\ hist.creates["instance"] = 1
           /\ hist.creates["role"] = 0 /\ hist.creates["instance_profile"] = 0
           /\ hist.creates["log_group"] = 0
           /\ cloud.key_pair
           /\ cloud.sg.id # 0
           /\ Cardinality(cloud.sg.rules) = 1
           /\ \A r \in cloud.sg.rules :
                 r.IpProtocol = "tcp" /\ r.FromPort = 22 /\ r.ToPort = 22
           /\ err = "none"
           /\ returncode = 0
           /\ ledger.is_file
           /\ instance_name \in DOMAIN ledger.json
           /\ DOMAIN ledger.json[instance_name].resources = SshKinds
           /\ DOMAIN ledger.json[instance_name].files = {PEM_KEY_PATH}
           /\ ledger.json[instance_name].resources[SECURITY_GROUP_ID] = cloud.sg.id
           /\ ledger.json[instance_name].resources[INSTANCE_ID] = Len(cloud.instances)
           /\ ledger.json[instance_name].resources[KEY_PAIR] = instance_name

\* a fresh SSH apply has succeeded
C3_Witness ==
    /\ FreshSshApplySucceeded
    /\ returncode = 0
    /\ cloud.instances[Len(cloud.instances)].state = RUNNING

\* the delete calls a finished delete has issued
DeleteCalls == {hist.deletes[i] : i \in 1..Len(hist.deletes)}

\* the kinds of the ledger that name a resource of the provider
DeletableKinds ==
    {KEY_PAIR, SECURITY_GROUP_ID, INSTANCE_ID, ROLE_ARN, INSTANCE_PROFILE_ARN, LOG_GROUP}

\* the resource recorded under kind is live at the provider
RecordedLive(record, kind, c) ==
    IF kind = KEY_PAIR THEN c.key_pair
    ELSE IF kind = SECURITY_GROUP_ID THEN c.sg.id = record.resources[kind]
    ELSE IF kind = INSTANCE_ID
         THEN /\ record.resources[kind] \in 1..Len(c.instances)
              /\ IsLive(c.instances[record.resources[kind]])
    ELSE IF kind = ROLE_ARN THEN c.role
    ELSE IF kind = INSTANCE_PROFILE_ARN THEN c.profile
    ELSE c.log_group

\* C4: a delete in which every call succeeds issues a delete call for exactly
\* the resource kinds the record holds, returns 0, removes the ledger entry of
\* the instance name and leaves none of the recorded resources live.
C4_DeleteExactlyRecorded ==
    (task = "delete" /\ pc = "done" /\ err = "none")
        => /\ DeleteCalls = DeletableKinds \cap DOMAIN StartRecord.resources
           /\ returncode = 0
           /\ instance_name \notin DOMAIN ledger.json
           /\ \A kind \in DeletableKinds \cap DOMAIN StartRecord.resources :
                 ~RecordedLive(StartRecord, kind, cloud)

\* the record names an instance that is live under another key name
IdentityMismatch(record, c) ==
    /\ INSTANCE_ID \in DOMAIN record.resources
    /\ record.resources[INSTANCE_ID] \in 1..Len(c.instances)
    /\ IsLive(c.instances[record.resources[INSTANCE_ID]])
    /\ c.instances[record.resources[INSTANCE_ID]].key_name # instance_name

\* C5: an SSH apply whose record names a live instance with another key name
\* creates no key pair, security group or instance, and ends in an error.
C5_MismatchBeforeCreate ==
    (/\ task = "apply"
     /\ args.protocol = "ssh"
     /\ pc # "idle"
     /\ IdentityMismatch(StartRecord, hist.start.cloud))
        => /\ hist.creates["key_pair"] = 0
           /\ hist.creates["security_group"] = 0
           /\ hist.creates["instance"] = 0
           /\ pc = "done" => err # "none"

\* C6: a delete that met no error other than a resource that is already
\* absent at the provider completes and removes the ledger entry.
C6_DeleteRemovesEntry ==
    (/\ task = "delete"
     /\ pc = "done"
     /\ err \notin {"ClientError", "DeleteConflict", "KeyError", "FileNotFoundError"})
        => /\ err = "none"
           /\ instance_name \notin DOMAIN ledger.json

\* C7: a delete that a failing delete call has aborted ends with that error
\* and has not written the ledger: the file is what it was when delete began.
C7_AbortedDeleteKeepsLedger ==
    (task = "delete" /\ pc = "done" /\ err # "none")
        => /\ err \in DeleteErrors
           /\ hist.stage # "deleted"
           /\ returncode = -1
           /\ ledger = hist.start.ledger

\* a delete call failed after an earlier kind of the record had been deleted
C7_Witness ==
    /\ task = "delete"
    /\ pc = "done"
    /\ err = "ClientError"
    /\ Len(hist.deletes) >= 2
    /\ DOMAIN StartRecord.resources # {}

\* the run of a run command has failed: the entrypoint ran on the agent of
\* the record and returned non-zero
RunFailed ==
    /\ task = "run"
    /\ hist.run_rc \notin {-1, 0}
    /\ INSTANCE_ID \in DOMAIN StartRecord.resources
    /\ IF args.protocol = "ssh" THEN Len(hist.execs) = 1
       ELSE LOG_GROUP \in DOMAIN StartRecord.resources

\* nothing of the agent has been deleted and the ledger is as it was
Preserved ==
    /\ hist.deletes = <<>>
    /\ hist.stage # "deleted"
    /\ ledger = hist.start.ledger
    /\ pem_file = hist.start.pem_file
    /\ cloud.key_pair = hist.start.cloud.key_pair
    /\ cloud.sg.id = hist.start.cloud.sg.id
    /\ cloud.role = hist.start.cloud.role
    /\ cloud.profile = hist.start.cloud.profile

\* C8 as stated: after a failed run without --no-delete-failure and without
\* --no-delete-success, nothing is deleted and the ledger is unchanged.
C8_Original ==
    (RunFailed /\ ~args.no_delete_failure /\ ~args.no_delete_success) => Preserved

\* C8 amended: after a failed run with --no-delete-failure nothing is deleted
\* and the ledger is unchanged, and the command exits with 1.
C8_FailedRunPreserved ==
    (RunFailed /\ args.no_delete_failure)
        => /\ Preserved
           /\ pc \in {"done", "idle"}
           /\ returncode = 1

\* a run on a provisioned agent has failed under --no-delete-failure
C8_Witness ==
    /\ RunFailed
    /\ args.no_delete_failure
    /\ pc = "done"
    /\ returncode = 1
    /\ hist.start.cloud.instances[StartRecord.resources[INSTANCE_ID]].state = RUNNING

SshApply == task = "apply" /\ args.protocol = "ssh"

\* C9 as stated: the script runs at most twice, and a second time if and
\* only if the first execution exited with 8.
C9_Original ==
    (SshApply /\ pc = "done" /\ Len(hist.execs) >= 1)
        => /\ Len(hist.execs) <= 2
           /\ Len(hist.execs) = 2 <=> hist.execs[1].rc = 8

\* C9 amended: the script runs at most twice; a second time only after an
\* exit code 8, and always after an exit code 8 unless the ingress check or
\* the authorisation raised; the ingress check is made once, before the
\* second execution; 0.0.0.0/0 is authorised if and only if the check
\* returned None; the second execution uses the command of the first; the
\* exit code of the last execution is the result.
C9_SshRetry ==
    SshApply
        => /\ Len(hist.execs) <= 2
           /\ hist.checks <= 1
           /\ Len(hist.execs) = 2
                => /\ hist.execs[1].rc = 8
                   /\ hist.checks = 1
                   /\ hist.execs[2].cmd = hist.execs[1].cmd
                   /\ hist.escalated <=> loc.added_ip = "None"
           /\ hist.escalated => loc.added_ip = "None"
           /\ hist.checks = 1 => Len(hist.execs) >= 1 /\ hist.execs[1].rc = 8
           /\ (pc = "done" /\ Len(hist.execs) >= 1 /\ hist.execs[1].rc = 8
                 /\ err = "none")
                => Len(hist.execs) = 2
           /\ (pc = "done" /\ Len(hist.execs) >= 1 /\ err = "none")
                => returncode = hist.execs[Len(hist.execs)].rc

\* the script exited with 8 twice, after an escalation to 0.0.0.0/0
C9_Witness ==
    /\ SshApply
    /\ pc = "done"
    /\ Len(hist.execs) = 2
    /\ hist.execs[2].rc = 8
    /\ hist.escalated
    /\ returncode = 8

(***************************************************************************)
(* Ledger merges alone: Ec2.update_json called with arbitrary patches, by  *)
(* the agent of instance_name and by the agent of other_name, on a ledger  *)
(* that the constructors of both have been through.                        *)
(***************************************************************************)
ResourcePatches == {("A" :> 1), ("B" :> 2), ("A" :> 2)}
FilePatches == {(PEM_KEY_PATH :> "x.pem"), (PEM_KEY_PATH :> "y.pem")}

\* a patch carries a resources map, a files map, both or neither
MergePatches ==
    {EmptyMap}
    \cup {[resources |-> r] : r \in ResourcePatches}
    \cup {[files |-> f] : f \in FilePatches}
    \cup {[resources |-> r, files |-> f] : r \in ResourcePatches, f \in FilePatches}

MergeNames == {instance_name, other_name}

InitMerge ==
    /\ cloud = NoCloud
    /\ \E file \in {NoFile,
                    write_json(other_name :> [resources |-> ("A" :> 7),
                                              files |-> (PEM_KEY_PATH :> "other.pem")])} :
          ledger = Ec2Init(Ec2Init(file, instance_name), other_name)
    /\ pem_file = FALSE
    /\ external_ip = IpV4Caller
    /\ pc = "merge"
    /\ task = "none"
    /\ args = [protocol |-> "ssh", whitelist_all |-> FALSE,
               no_delete_failure |-> FALSE, no_delete_success |-> FALSE]
    /\ current_data = [resources |-> EmptyMap, files |-> EmptyMap]
    /\ resource_data = EmptyMap
    /\ loc = NoLoc
    /\ returncode = -1
    /\ err = "none"
    /\ nOps = 0
    /\ faults = 0
    /\ hist = [NoHist EXCEPT !.start.ledger = ledger]
    /\ patches = <<>>

\* one call of update_json by the agent called name
Merge ==
    /\ pc = "merge"
    /\ Len(patches) < MaxMerges
    /\ \E name \in MergeNames, data \in MergePatches :
          /\ ~update_json_raises(ledger, name, data)
          /\ ledger' = update_json(ledger, name, data)
          /\ patches' = Append(patches, [name |-> name, data |-> data])
    /\ UNCHANGED <<cloud, pem_file, external_ip, pc, task, args, current_data,
                   resource_data, loc, returncode, err, nOps, faults, hist>>

NextMerge == Merge

SpecMerge == InitMerge /\ [][NextMerge]_vars

\* the patches merged so far for name that carry the map and, in it, key k
Carrying(name, map, k) ==
    {i \in 1..Len(patches) :
        /\ patches[i].name = name
        /\ map \in DOMAIN patches[i].data
        /\ k \in DOMAIN patches[i].data[map]}

MaxOf(S) == CHOOSE i \in S : \A j \in S : j <= i

\* the keys any patch for name has carried in the map
PatchedKeys(name, map) ==
    UNION {DOMAIN patches[i].data[map] :
             i \in {j \in 1..Len(patches) :
                      patches[j].name = name /\ map \in DOMAIN patches[j].data}}

\* C10: after any sequence of merges, the resources map and the files map of
\* every instance name hold, for each key, the value of the last patch for
\* that name that carried the key, or else the value the map had before the
\* merges; the keys are those of the map before the merges and of the
\* patches for that name.  The record of a name therefore depends on the
\* patches for that name alone.
C10_MergeIsRightBiasedUnion ==
    pc = "merge"
        => /\ ledger.is_file
           /\ DOMAIN ledger.json = DOMAIN hist.start.ledger.json
           /\ \A name \in MergeNames, map \in {"resources", "files"} :
                LET before == hist.start.ledger.json[name][map]
                    now == ledger.json[name][map]
                IN  /\ DOMAIN now = DOMAIN before \cup PatchedKeys(name, map)
                    /\ \A k \in DOMAIN now :
                          now[k] = IF Carrying(name, map, k) # {}
                                   THEN patches[MaxOf(Carrying(name, map, k))].data[map][k]
                                   ELSE before[k]

\* {resources: {A: 1}} and then {resources: {B: 2}} have been merged for the
\* instance name, and the record holds both
C10_Witness ==
    /\ pc = "merge"
    /\ Len(patches) >= 2
    /\ patches[1] = [name |-> instance_name, data |-> [resources |-> ("A" :> 1)]]
    /\ patches[2] = [name |-> instance_name, data |-> [resources |-> ("B" :> 2)]]
    /\ "A" \in DOMAIN ledger.json[instance_name].resources
    /\ "B" \in DOMAIN ledger.json[instance_name].resources

\* a teardown has run to its end: Ec2.delete has written the ledger, or the
\* delete_resources_in_json of a failed apply has unlinked it
TeardownFinished ==
    /\ pc = "done"
    /\ \/ task \in {"delete", "run"} /\ hist.stage = "deleted"
       \/ task = "apply" /\ pc = "done" /\ loc.step = Len(DeleteOrder) + 1

\* C11: a finished teardown leaves the entries of the other instance names in
\* the ledger file as they were, and the file is gone only if the entry of
\* the instance name was the only one.
C11_TeardownKeepsOtherEntries ==
    TeardownFinished
        => /\ \A name \in DOMAIN hist.start.ledger.json \ {instance_name} :
                 /\ ledger.is_file
                 /\ name \in DOMAIN ledger.json
                 /\ ledger.json[name] = hist.start.ledger.json[name]
           /\ ~ledger.is_file => DOMAIN hist.start.ledger.json = {instance_name}

(***************************************************************************)
(* The ingress guard on its own: check_ingress_ip and the escalation of    *)
(* _execute_apply_script, called on a security group whose rules earlier   *)
(* invocations (from this or another caller IP) have left behind           *)
(***************************************************************************)
MaxChecks == 3

IpV4Near == <<"1">> \o IpV4Caller

\* the rules earlier invocations can have authorised
EarlierRules == {IngressPermission(IpV4Caller, FALSE), IngressPermission(IpV4Near, FALSE),
                 IngressPermission(IpV4Caller, TRUE), IngressPermission(IpV6Caller, FALSE)}

InitIngress ==
    /\ \E rules \in SUBSET EarlierRules :
          cloud = [NoCloud EXCEPT !.sg = [id |-> 1, rules |-> rules], !.sg_count = 1]
    /\ ledger = NoFile
    /\ pem_file = FALSE
    /\ external_ip \in CallerIps
    /\ pc = "ingress"
    /\ task = "none"
    /\ \E whitelist_all \in BOOLEAN :
          args = [protocol |-> "ssh", whitelist_all |-> whitelist_all,
                  no_delete_failure |-> FALSE, no_delete_success |-> FALSE]
    /\ current_data = [resources |-> EmptyMap, files |-> EmptyMap]
    /\ resource_data = EmptyMap
    /\ loc = NoLoc
    /\ returncode = -1
    /\ err = "none"
    /\ nOps = 0
    /\ faults = 0
    /\ hist = NoHist
    /\ patches = <<>>

IngressCall(op, ip, whitelist, ret) ==
    [op |-> op, ip |-> ip, whitelist |-> whitelist, ret |-> ret,
     before |-> cloud.sg.rules, after |-> cloud'.sg.rules, faulted |-> faults' # faults]

\* one call of check_ingress_ip
IngressCheck ==
    /\ pc = "ingress"
    /\ Len(hist.ingress) < MaxChecks
    /\ \E ret \in IngressResults :
          /\ check_ingress_ip(cloud.sg.id, args.whitelist_all, ret)
          /\ hist' = [hist EXCEPT !.ingress =
                         Append(@, IngressCall("check", external_ip, args.whitelist_all, ret))]
    /\ UNCHANGED <<ledger, pem_file, external_ip, pc, task, args, current_data,
                   resource_data, loc, returncode, err, nOps, patches>>

\* the check returned None and the connection still failed: whitelist_all is
\* set and add_ingress_rule is called with "0.0.0.0"
IngressEscalate ==
    /\ pc = "ingress"
    /\ Len(hist.ingress) < MaxChecks
    /\ Len(hist.ingress) > 0
    /\ hist.ingress[Len(hist.ingress)].op = "check"
    /\ hist.ingress[Len(hist.ingress)].ret = "None"
    /\ args' = [args EXCEPT !.whitelist_all = TRUE]
    /\ \E ret \in IngressResults :
          /\ add_ingress_rule(cloud.sg.id, IpZero, TRUE, ret)
          /\ hist' = [hist EXCEPT !.ingress = Append(@, IngressCall("add", IpZero, TRUE, ret))]
    /\ UNCHANGED <<ledger, pem_file, external_ip, pc, task, current_data,
                   resource_data, loc, returncode, err, nOps, patches>>

NextIngress == IngressCheck \/ IngressEscalate

SpecIngress == InitIngress /\ [][NextIngress]_vars

\* the source CIDR the guard asks for, and its address family
SearchedCidr(ip, whitelist) ==
    IF flag_is_ipv4(ip)
    THEN IF whitelist THEN <<"0", ".", "0", ".", "0", ".", "0", "/", "0">>
         ELSE ip \o <<"/", "3", "2">>
    ELSE <<":", ":", "/", "0">>

SearchedRule(ip, whitelist) ==
    [IpProtocol |-> "tcp", FromPort |-> 22, ToPort |-> 22,
     family |-> IF flag_is_ipv4(ip) THEN "ipv4" ELSE "ipv6",
     cidr |-> SearchedCidr(ip, whitelist)]

Classified(ip) == flag_is_ipv4(ip) \/ flag_is_ipv6(ip)

\* C12: ingress idempotence. For a classified caller IP and a fixed
\* whitelist_all, a check (with no provider fault) on a security group that
\* has no port-22 rule for the searched source authorises exactly one rule and
\* returns an added IP; a check that immediately follows authorises nothing
\* and returns None.
C12_IngressIdempotent ==
    \A i \in 1..Len(hist.ingress) :
        LET c == hist.ingress[i] IN
        (/\ c.op = "check" /\ Classified(c.ip) /\ ~c.faulted
         /\ SearchedRule(c.ip, c.whitelist) \notin c.before)
            => /\ c.ret = "Added"
               /\ c.before \subseteq c.after
               /\ Cardinality(c.after \ c.before) = 1
               /\ (i < Len(hist.ingress)
                   /\ hist.ingress[i + 1].op = "check"
                   /\ hist.ingress[i + 1].whitelist = c.whitelist
                   /\ ~hist.ingress[i + 1].faulted)
                      => /\ hist.ingress[i + 1].ret = "None"
                         /\ hist.ingress[i + 1].after = hist.ingress[i + 1].before

\* C13: a rule the guard authorises is the TCP port-22 rule for the caller's
\* /32 (IPv4, whitelist_all false), 0.0.0.0/0 (IPv4, whitelist_all true) or
\* ::/0 (IPv6); a call for a rule that already exists returns None and raises
\* nothing; any other provider error is raised to the caller and authorises
\* nothing.
C13_AuthorisedRule ==
    \A i \in 1..Len(hist.ingress) :
        LET c == hist.ingress[i] IN
        /\ c.after \ c.before \subseteq {SearchedRule(c.ip, c.whitelist)}
        /\ c.ret = "Added" <=> c.after # c.before
        /\ (c.op = "add" /\ ~c.faulted /\ SearchedRule(c.ip, c.whitelist) \in c.before)
              => c.ret = "None"
        /\ c.faulted => c.ret = "ClientError"

C13_Witness ==
    /\ \E i \in 1..Len(hist.ingress) :
          /\ hist.ingress[i].ret = "Added"
          /\ hist.ingress[i].whitelist
          /\ flag_is_ipv4(hist.ingress[i].ip)
    /\ \E i \in 1..Len(hist.ingress) :
          hist.ingress[i].op = "add" /\ hist.ingress[i].ret = "None"

\* the position of a kind in a sequence of kinds
PositionIn(order, kind) == CHOOSE i \in 1..Len(order) : order[i] = kind

\* the delete calls issued so far follow the given order of kinds
DeletesFollow(order) ==
    \A i, j \in 1..Len(hist.deletes) :
        i < j => PositionIn(order, hist.deletes[i]) < PositionIn(order, hist.deletes[j])

MaxArtifacts == 2
MaxPolls == 2

\* the values and the names of the members of CommandStatus
CommandStatus == {"Success", "Cancelled", "Failed", "TimedOut"}
CommandStatusNames == {"SUCCESS", "CANCELLED", "FAILED", "TIMEDOUT"}

\* the statuses the provider reports for a command
ProviderStatuses == CommandStatus \cup {"Pending", "InProgress", "Delayed", "Cancelling"}

\* str.upper() on a status
Upper(status) ==
    CASE status = "Success" -> "SUCCESS"
      [] status = "Cancelled" -> "CANCELLED"
      [] status = "Failed" -> "FAILED"
      [] status = "TimedOut" -> "TIMEDOUT"
      [] status = "Pending" -> "PENDING"
      [] status = "InProgress" -> "INPROGRESS"
      [] status = "Delayed" -> "DELAYED"
      [] status = "Cancelling" -> "CANCELLING"
      [] OTHER -> "NONE"

\* the exit test of the status poll with Cancelling taken for an end
PollDoneOnCancelling(status) == status \in CommandStatus \cup {"Cancelling"}

\* `status not in [s.value for s in CommandStatus]` is false: the poll ends
PollDone(status) == status \in CommandStatus

\* the value send_command_and_stream_logs returns: the member by name
StatusMember(status) ==
    IF status = "None" THEN "FAILED"
    ELSE IF Upper(status) \in CommandStatusNames THEN Upper(status) ELSE "KeyError"

\* paths are sequences of components; the project directory and the
\* artifacts a configuration can declare
alto_wkdir == <<"proj">>
ArtifactPaths == {<<"proj", "out", "a.csv">>, <<"proj", "b.csv">>, <<"tmp", "a.csv">>}

\* os.path.relpath(path, start) for a one-component start
relpath(path, start) == IF path[1] = start[1] THEN Tail(path) ELSE <<"..">> \o path

\* Path(path).name
PathName(path) == path[Len(path)]

\* the object key with the instance id left out
S3KeyBare(instance_id, fname) == <<0, fname>>

\* f"{instance_id}/{fname}"
S3Key(instance_id, fname) == <<instance_id, fname>>

NoKey == <<0, "">>
Cmd(op, path, key) == [op |-> op, path |-> path, key |-> key]

RECURSIVE ArtifactKeys(_, _)
ArtifactKeys(instance_id, paths) ==
    IF paths = <<>> THEN <<>>
    ELSE <<S3Key(instance_id, PathName(Head(paths)))>>
             \o ArtifactKeys(instance_id, Tail(paths))

RECURSIVE ArtifactCmds(_, _, _)
ArtifactCmds(docker, instance_id, paths) ==
    IF paths = <<>> THEN <<>>
    ELSE LET key == S3Key(instance_id, PathName(Head(paths)))
         IN  (IF docker
              THEN <<Cmd("docker_cp", Head(paths), NoKey),
                     Cmd("s3_cp", <<PathName(Head(paths))>>, key)>>
              ELSE <<Cmd("s3_cp", Head(paths), key)>>)
                 \o ArtifactCmds(docker, instance_id, Tail(paths))

RECURSIVE MapRelpath(_)
MapRelpath(paths) ==
    IF paths = <<>> THEN <<>>
    ELSE <<relpath(Head(paths), alto_wkdir)>> \o MapRelpath(Tail(paths))

\* all_cmds of run_entrypoint_on_instance
RunCmds(image, instance_id, artifacts) ==
    IF image = "docker"
    THEN <<Cmd("docker_run", <<>>, NoKey), Cmd("docker_logs", <<>>, NoKey)>>
             \o ArtifactCmds(TRUE, instance_id, MapRelpath(artifacts))
    ELSE <<Cmd("activate", <<>>, NoKey), Cmd("cd", alto_wkdir, NoKey),
           Cmd("entrypoint", <<>>, NoKey)>>
             \o ArtifactCmds(FALSE, instance_id, artifacts)

\* all_cmds of setup_instance
SetupCmds(image) ==
    IF image = "docker" THEN <<Cmd("docker_install", <<>>, NoKey), Cmd("docker_pull", <<>>, NoKey)>>
    ELSE <<Cmd("venv", <<>>, NoKey), Cmd("requirements", <<>>, NoKey), Cmd("mounts", <<>>, NoKey)>>

ArtifactLists ==
    UNION {[1..n -> ArtifactPaths] : n \in 0..MaxArtifacts}

\* the locals of the dispatching function
NoDispatch == [fn |-> "none", image |-> "none", workdir |-> TRUE, artifacts |-> <<>>,
               instance_id |-> 0, artifacts_s3_keys |-> <<>>, all_cmds |-> <<>>,
               status |-> "None", counter |-> 0, polls |-> 0, k |-> 1]

\* the record of an SSM agent, whole or with a kind missing
SsmRecords ==
    {(INSTANCE_ID :> 1) @@ (LOG_GROUP :> instance_name) @@ (ROLE_ARN :> instance_name),
     (INSTANCE_ID :> 1) @@ (ROLE_ARN :> instance_name),
     (ROLE_ARN :> instance_name)}

InitDispatch ==
    /\ cloud = NoCloud
    /\ ledger = NoFile
    /\ pem_file = FALSE
    /\ external_ip = IpV4Caller
    /\ pc = "dispatch"
    /\ task \in {"apply", "run"}
    /\ args = [protocol |-> "ssm", whitelist_all |-> FALSE,
               no_delete_failure |-> FALSE, no_delete_success |-> FALSE]
    /\ \E resources \in SsmRecords :
          current_data = [resources |-> resources, files |-> EmptyMap]
    /\ resource_data = EmptyMap
    /\ \E image \in {"none", "docker"}, workdir \in BOOLEAN, artifacts \in ArtifactLists :
          /\ image = "none" => workdir
          /\ task = "apply" => artifacts = <<>>
          /\ loc = [NoDispatch EXCEPT !.fn = IF task = "apply" THEN "setup_instance"
                                            ELSE "run_entrypoint_on_instance",
                                      !.image = image, !.workdir = workdir,
                                      !.artifacts = artifacts]
    /\ returncode = -1
    /\ err = "none"
    /\ nOps = 0
    /\ faults = 0
    /\ hist = NoHist
    /\ patches = <<>>

\* the head of setup_instance and run_entrypoint_on_instance, up to all_cmds
DispatchStart ==
    /\ pc = "dispatch"
    /\ IF IsNone(current_data.resources, INSTANCE_ID)
          \/ IsNone(current_data.resources, LOG_GROUP)
       THEN returncode' = 1 /\ pc' = "done" /\ UNCHANGED <<loc, err>>
       ELSE IF loc.fn = "run_entrypoint_on_instance" /\ ~loc.workdir
       THEN /\ err' = IF loc.artifacts = <<>> THEN "AssertionError" ELSE "ValueError"
            /\ pc' = "raised"
            /\ UNCHANGED <<loc, returncode>>
       ELSE LET instance_id == current_data.resources[INSTANCE_ID] IN
            /\ loc' = [loc EXCEPT
                        !.instance_id = instance_id,
                        !.artifacts_s3_keys =
                            IF loc.fn = "setup_instance" THEN <<>>
                            ELSE ArtifactKeys(instance_id, loc.artifacts),
                        !.all_cmds =
                            IF loc.fn = "setup_instance" THEN SetupCmds(loc.image)
                            ELSE RunCmds(loc.image, instance_id, loc.artifacts)]
            /\ pc' = "dispatch_send"
            /\ UNCHANGED <<returncode, err>>
    /\ UNCHANGED <<cloud, ledger, pem_file, external_ip, task, args, current_data,
                   resource_data, nOps, faults, hist, patches>>

\* the except clause counting retries instead of seconds
InvalidInstanceIdCountingRetries ==
    IF loc.counter >= 30
    THEN err' = "InvalidInstanceId" /\ pc' = "raised" /\ UNCHANGED loc
    ELSE /\ loc' = [loc EXCEPT !.counter = @ + 1]
         /\ pc' = "dispatch_send"
         /\ UNCHANGED err

\* the except clause of send_command_and_stream_logs for an error that
\* names InvalidInstanceId
InvalidInstanceId ==
    IF loc.counter >= 30
    THEN err' = "InvalidInstanceId" /\ pc' = "raised" /\ UNCHANGED loc
    ELSE /\ loc' = [loc EXCEPT !.counter = @ + 5]
         /\ pc' = "dispatch_send"
         /\ UNCHANGED err

\* ssm_client.send_command inside the retry loop
DispatchSend ==
    /\ pc = "dispatch_send"
    /\ \/ InvalidInstanceId /\ UNCHANGED <<faults, hist>>
       \/ /\ Fault
          /\ err' = "ClientError" /\ pc' = "raised"
          /\ UNCHANGED <<loc, hist>>
       \/ /\ \E status \in {"Pending", "InProgress"} :
                loc' = [loc EXCEPT !.status = status]
          /\ hist' = [hist EXCEPT !.sent = Append(@, loc.all_cmds)]
          /\ pc' = "dispatch_poll"
          /\ UNCHANGED <<err, faults>>
    /\ UNCHANGED <<cloud, ledger, pem_file, external_ip, task, args, current_data,
                   resource_data, returncode, nOps, patches>>

\* one turn of `while status not in [s.value for s in CommandStatus]`
DispatchPoll ==
    /\ pc = "dispatch_poll"
    /\ IF PollDone(loc.status)
       THEN pc' = "dispatch_return" /\ UNCHANGED <<loc, err, faults>>
       ELSE \/ InvalidInstanceId /\ UNCHANGED faults
            \/ /\ Fault
               /\ err' = "ClientError" /\ pc' = "raised"
               /\ UNCHANGED loc
            \/ /\ \E status \in ProviderStatuses :
                     /\ loc.polls >= MaxPolls => status \in CommandStatus
                     /\ loc' = [loc EXCEPT !.status = status, !.polls = @ + 1]
               /\ pc' = "dispatch_poll"
               /\ UNCHANGED <<err, faults>>
    /\ UNCHANGED <<cloud, ledger, pem_file, external_ip, task, args, current_data,
                   resource_data, returncode, nOps, hist, patches>>

\* the return code of a dispatch that ended with the given member, taking
\* CANCELLED for a success too
DispatchCodeLenient(member) == IF member \in {"SUCCESS", "CANCELLED"} THEN 0 ELSE 1

\* `if status != CommandStatus.SUCCESS: return 1`
DispatchCode(member) == IF member = "SUCCESS" THEN 0 ELSE 1

\* send_command_and_stream_logs returns; the caller tests the status
DispatchReturn ==
    /\ pc = "dispatch_return"
    /\ LET member == StatusMember(loc.status) IN
       IF member = "KeyError"
       THEN err' = "KeyError" /\ pc' = "raised" /\ UNCHANGED <<returncode, loc>>
       ELSE IF DispatchCode(member) # 0
       THEN returncode' = DispatchCode(member) /\ pc' = "done" /\ UNCHANGED <<err, loc>>
       ELSE IF loc.fn = "setup_instance"
       THEN returncode' = 0 /\ pc' = "done" /\ UNCHANGED <<err, loc>>
       ELSE /\ pc' = "dispatch_download"
            /\ loc' = [loc EXCEPT !.k = 1]
            /\ UNCHANGED <<returncode, err>>
    /\ UNCHANGED <<cloud, ledger, pem_file, external_ip, task, args, current_data,
                   resource_data, nOps, faults, hist, patches>>

Min(a, b) == IF a <= b THEN a ELSE b

\* one turn of `for local_path, s3_key in zip(artifacts, artifacts_s3_keys)`
DispatchDownload ==
    /\ pc = "dispatch_download"
    /\ IF loc.k > Min(Len(loc.artifacts), Len(loc.artifacts_s3_keys))
       THEN returncode' = 0 /\ pc' = "done" /\ UNCHANGED <<loc, err, faults, hist>>
       ELSE \/ /\ Fault
               /\ err' = "ClientError" /\ pc' = "raised"
               /\ UNCHANGED <<loc, returncode, hist>>
            \/ /\ hist' = [hist EXCEPT !.downloads =
                              Append(@, [key |-> loc.artifacts_s3_keys[loc.k],
                                         path |-> loc.artifacts[loc.k]])]
               /\ loc' = [loc EXCEPT !.k = @ + 1]
               /\ UNCHANGED <<pc, returncode, err, faults>>
    /\ UNCHANGED <<cloud, ledger, pem_file, external_ip, task, args, current_data,
                   resource_data, nOps, patches>>

NextDispatch ==
    \/ DispatchStart
    \/ DispatchSend
    \/ DispatchPoll
    \/ DispatchReturn
    \/ DispatchDownload

SpecDispatch == InitDispatch /\ [][NextDispatch]_vars

\* a command list has been handed to the provider
Dispatched == hist.sent # <<>>

\* the positions of the commands that start the entrypoint
EntrypointPositions(cmds) ==
    {p \in 1..Len(cmds) : cmds[p].op \in {"entrypoint", "docker_run"}}

\* C15: every declared artifact has, in each dispatched command list of a
\* run, an upload under the key <instance_id>/<basename> placed after the
\* entrypoint command; a run that ends with status Success has downloaded
\* exactly these keys, each to the artifact's own path, and a run that ends
\* with another status has downloaded nothing and returns 1.
C15_ArtifactRoundTrip ==
    loc.fn = "run_entrypoint_on_instance"
        => /\ \A n \in 1..Len(hist.sent), a \in 1..Len(loc.artifacts) :
                 \E p \in 1..Len(hist.sent[n]) :
                    /\ hist.sent[n][p].op = "s3_cp"
                    /\ hist.sent[n][p].key
                          = <<current_data.resources[INSTANCE_ID],
                              loc.artifacts[a][Len(loc.artifacts[a])]>>
                    /\ \A e \in EntrypointPositions(hist.sent[n]) : e < p
           /\ (pc = "done" /\ Dispatched /\ loc.status = "Success")
                 => /\ returncode = 0
                    /\ Len(hist.downloads) = Len(loc.artifacts)
                    /\ \A a \in 1..Len(loc.artifacts) :
                          hist.downloads[a]
                             = [key |-> <<current_data.resources[INSTANCE_ID],
                                          loc.artifacts[a][Len(loc.artifacts[a])]>>,
                                path |-> loc.artifacts[a]]
           /\ (pc = "done" /\ Dispatched /\ loc.status # "Success")
                 => hist.downloads = <<>> /\ returncode = 1

C15_Witness ==
    /\ loc.fn = "run_entrypoint_on_instance"
    /\ pc = "done"
    /\ loc.status = "Success"
    /\ Len(loc.artifacts) = 2
    /\ Len(hist.downloads) = 2
    /\ loc.image = "docker"

\* C16: a dispatch has returned only with a terminal status (Success,
\* Cancelled, Failed, TimedOut); the return code of setup_instance and of
\* run_entrypoint_on_instance is then 0 exactly for Success and 1 for the
\* other three.
C16_TerminalStatus ==
    /\ (pc \in {"dispatch_return", "dispatch_download"} \/ (pc = "done" /\ Dispatched))
          => loc.status \in {"Success", "Cancelled", "Failed", "TimedOut"}
    /\ (pc = "done" /\ Dispatched)
          => /\ returncode = 0 <=> loc.status = "Success"
             /\ loc.status \in {"Cancelled", "Failed", "TimedOut"} => returncode = 1

C16_Witness ==
    /\ pc = "done"
    /\ Dispatched
    /\ loc.polls >= 2
    /\ loc.status = "TimedOut"
    /\ returncode = 1

(***************************************************************************)
(* check_ip_address_type on its own, applied to the strings the address    *)
(* service can answer with                                                 *)
(***************************************************************************)
MaxGroups == 8

ClassifyGroups == {<<"1", "2">>, <<"f", "e", "8", "0">>, <<"1", "2", "3", "4", "5">>}

RECURSIVE Join(_, _)
Join(groups, sep) ==
    IF Len(groups) = 1 THEN groups[1]
    ELSE groups[1] \o <<sep>> \o Join(Tail(groups), sep)

ClassifyInputs ==
    CallerIps \cup
    {Join(g, sep) : g \in UNION {[1..n -> ClassifyGroups] : n \in 1..MaxGroups},
                    sep \in {".", ":"}}

InitClassify ==
    /\ cloud = NoCloud
    /\ ledger = NoFile
    /\ pem_file = FALSE
    /\ external_ip \in ClassifyInputs
    /\ pc = "classify"
    /\ task = "none"
    /\ args = [protocol |-> "ssh", whitelist_all |-> FALSE,
               no_delete_failure |-> FALSE, no_delete_success |-> FALSE]
    /\ current_data = [resources |-> EmptyMap, files |-> EmptyMap]
    /\ resource_data = EmptyMap
    /\ loc = [returned |-> "unset", raised |-> "none"]
    /\ returncode = -1
    /\ err = "none"
    /\ nOps = 0
    /\ faults = 0
    /\ hist = NoHist
    /\ patches = <<>>

\* one call of check_ip_address_type(external_ip)
Classify ==
    /\ pc = "classify"
    /\ LET r == check_ip_address_type(external_ip) IN
       loc' = IF r = "ValueError" THEN [returned |-> "unset", raised |-> r]
              ELSE [returned |-> r, raised |-> "none"]
    /\ pc' = "classified"
    /\ UNCHANGED <<cloud, ledger, pem_file, external_ip, task, args, current_data,
                   resource_data, returncode, err, nOps, faults, hist, patches>>

NextClassify == Classify

SpecClassify == InitClassify /\ [][NextClassify]_vars

\* C17: the classifier returns ipv4 or ipv6 or raises, never both and never
\* neither; it returns ipv4 only for a string that matches the IPv4 pattern
\* and not the IPv6 pattern, ipv6 only for one that matches the IPv6 pattern
\* and not the IPv4 pattern, and raises for a string that matches both
\* patterns or neither.
C17_ClassifyTotalExclusive ==
    pc = "classified"
        => /\ \/ loc.returned \in {"ipv4", "ipv6"} /\ loc.raised = "none"
              \/ loc.returned = "unset" /\ loc.raised = "ValueError"
           /\ loc.returned = "ipv4"
                 => flag_is_ipv4(external_ip) /\ ~flag_is_ipv6(external_ip)
           /\ loc.returned = "ipv6"
                 => flag_is_ipv6(external_ip) /\ ~flag_is_ipv4(external_ip)
           /\ (flag_is_ipv4(external_ip) <=> flag_is_ipv6(external_ip))
                 => loc.raised = "ValueError"

C17_Witness ==
    /\ pc = "classified"
    /\ loc.returned = "ipv6"
    /\ external_ip # IpV6Caller

(***************************************************************************)
(* AgentCommand: a dict is a sequence of <<key, value>> pairs in insertion *)
(* order; a value is a string or a list of strings                         *)
(***************************************************************************)
MaxCalls == 2
MaxArgs == 2

Flags == {"-a", "-b", "-c"}
StrValue(text) == [list |-> FALSE, v |-> text]
ListValue(elements) == [list |-> TRUE, v |-> elements]
OptValues == {StrValue("x"), ListValue(<<>>), ListValue(<<"y">>), ListValue(<<"y", "z">>)}

\* the dicts with at most n keys: the keys of a dict are distinct
Dicts(keys, n) ==
    {d \in UNION {[1..k -> keys \X OptValues] : k \in 0..n} :
        \A i, j \in 1..Len(d) : i # j => d[i][1] # d[j][1]}

Keys(d) == {d[i][1] : i \in 1..Len(d)}

\* the script as a str or as a Path, and str() of it
Scripts == {[path |-> FALSE, text |-> <<".", "/", "m">>],
            [path |-> TRUE, text |-> <<".", "/", "m">>],
            [path |-> TRUE, text |-> <<"m">>]}
Str(script) ==
    IF script.path /\ Len(script.text) > 2 /\ SubSeq(script.text, 1, 2) = <<".", "/">>
    THEN SubSeq(script.text, 3, Len(script.text))
    ELSE script.text

\* AgentCommand.__init__
AgentCommand(executable, script, cmd_args) ==
    [executable |-> executable, script |-> script, args |-> cmd_args,
     accepted_optargs |-> Keys(cmd_args), additional_optargs |-> <<>>]

\* the inner loop: the optarg before every value of the list
RECURSIVE Repeat(_, _)
Repeat(optarg, values) ==
    IF values = <<>> THEN <<>>
    ELSE <<optarg, Head(values)>> \o Repeat(optarg, Tail(values))

\* a list value handled like a string: the optarg once, then the values
FlattenOnce(optarg, value) ==
    IF value.list THEN <<optarg>> \o value.v ELSE <<optarg, value.v>>

\* the body of both loops for one item of the dict
Flatten(optarg, value) ==
    IF value.list THEN Repeat(optarg, value.v) ELSE <<optarg, value.v>>

RECURSIVE FlattenAll(_, _)
FlattenAll(d, accepted) ==
    IF d = <<>> THEN <<>>
    ELSE (IF Head(d)[1] \in accepted THEN Flatten(Head(d)[1], Head(d)[2]) ELSE <<>>)
             \o FlattenAll(Tail(d), accepted)

process_cmd(self) ==
    <<self.executable, Str(self.script)>>
        \o FlattenAll(self.args, self.accepted_optargs)
        \o FlattenAll(self.additional_optargs, Keys(self.additional_optargs))

InitCmd ==
    /\ cloud = NoCloud
    /\ ledger = NoFile
    /\ pem_file = FALSE
    /\ external_ip = IpV4Caller
    /\ pc = "command"
    /\ task = "none"
    /\ args = [protocol |-> "ssh", whitelist_all |-> FALSE,
               no_delete_failure |-> FALSE, no_delete_success |-> FALSE]
    /\ current_data = [resources |-> EmptyMap, files |-> EmptyMap]
    /\ resource_data = EmptyMap
    /\ \E script \in Scripts, cmd_args \in Dicts({"-a", "-b"}, MaxArgs) :
          loc = [self |-> AgentCommand("python", script, cmd_args), calls |-> <<>>]
    /\ returncode = -1
    /\ err = "none"
    /\ nOps = 0
    /\ faults = 0
    /\ hist = NoHist
    /\ patches = <<>>

\* called by the protocol before it processes the command
set_accepted_apply_optargs ==
    /\ pc = "command"
    /\ loc.calls = <<>>
    /\ \E accepted_optargs \in SUBSET Flags :
          loc' = [loc EXCEPT !.self.accepted_optargs = accepted_optargs]
    /\ UNCHANGED <<cloud, ledger, pem_file, external_ip, pc, task, args, current_data,
                   resource_data, returncode, err, nOps, faults, hist, patches>>

\* called by the protocol before it processes the command, like the above
set_additional_optargs ==
    /\ pc = "command"
    /\ loc.calls = <<>>
    /\ \E additional_optargs \in Dicts({"-a", "-c"}, 1) :
          loc' = [loc EXCEPT !.self.additional_optargs = additional_optargs]
    /\ UNCHANGED <<cloud, ledger, pem_file, external_ip, pc, task, args, current_data,
                   resource_data, returncode, err, nOps, faults, hist, patches>>

ProcessCmd ==
    /\ pc = "command"
    /\ Len(loc.calls) < MaxCalls
    /\ loc' = [loc EXCEPT !.calls = Append(@, [self |-> loc.self,
                                              returned |-> process_cmd(loc.self)])]
    /\ UNCHANGED <<cloud, ledger, pem_file, external_ip, pc, task, args, current_data,
                   resource_data, returncode, err, nOps, faults, hist, patches>>

NextCmd == set_accepted_apply_optargs \/ set_additional_optargs \/ ProcessCmd

SpecCmd == InitCmd /\ [][NextCmd]_vars

\* the items that count: the accepted ones of args, then the additional ones
KeptItems(self) ==
    LET Accepted(item) == item[1] \in self.accepted_optargs
    IN  SelectSeq(self.args, Accepted) \o self.additional_optargs

\* the number of values of an item, and its e-th value
Width(value) == IF value.list THEN Len(value.v) ELSE 1
ValueAt(value, e) == IF value.list THEN value.v[e] ELSE value.v

\* the number of values of the items before the i-th
RECURSIVE ValuesBefore(_, _)
ValuesBefore(items, i) ==
    IF i <= 1 THEN 0 ELSE ValuesBefore(items, i - 1) + Width(items[i - 1][2])

\* C18: process_cmd returns executable and script, then for every accepted
\* item of args in insertion order and after them for every additional item
\* the flag before each of its values, in the order of the values; items
\* that are not accepted add nothing; calls on an equal command return equal
\* lists.
C18_ProcessCmd ==
    /\ \A n \in 1..Len(loc.calls) :
          LET self == loc.calls[n].self
              r == loc.calls[n].returned
              items == KeptItems(self)
          IN  /\ r[1] = self.executable
              /\ r[2] = Str(self.script)
              /\ Len(r) = 2 + 2 * ValuesBefore(items, Len(items) + 1)
              /\ \A i \in 1..Len(items) : \A e \in 1..Width(items[i][2]) :
                    /\ r[2 * (ValuesBefore(items, i) + e) + 1] = items[i][1]
                    /\ r[2 * (ValuesBefore(items, i) + e) + 2] = ValueAt(items[i][2], e)
    /\ \A n, k \in 1..Len(loc.calls) :
          loc.calls[n].self = loc.calls[k].self
              => loc.calls[n].returned = loc.calls[k].returned

C18_Witness ==
    /\ Len(loc.calls) = 2
    /\ loc.calls[1].self = loc.calls[2].self
    /\ LET self == loc.calls[2].self IN
       /\ \E i \in 1..Len(self.args) :
             /\ self.args[i][1] \in self.accepted_optargs
             /\ self.args[i][2].list
             /\ Len(self.args[i][2].v) = 2
       /\ \E i \in 1..Len(self.args) : self.args[i][1] \notin self.accepted_optargs
       /\ self.additional_optargs # <<>>

\* create_resources has returned normally and setup_instance is next
Provisioned == pc \in {"ssh_setup", "ssm_setup"}

\* C19: when create_resources has returned normally, the last observation of
\* the instance was RUNNING and the state and public DNS name it recorded
\* are those of that observation; it never returns recording TERMINATED or
\* SHUTTING_DOWN.
C19_ProvisionedIsRunning ==
    Provisioned
        => /\ loc.resp.found
           /\ loc.resp.state = RUNNING
           /\ resource_data.resources[RES_STATE] = RUNNING
           /\ resource_data.resources[PUBLIC_DNS_NAME] = loc.resp.public_dns_name

\* C20: a provisioner that observes PENDING polls again and starts nothing;
\* one that has observed STOPPED or STOPPING has its start call accepted and
\* goes on towards RUNNING instead of ending the step with an error.
C20_Readiness ==
    [][/\ (pc \in {"ssh_pending", "ssm_pending"} /\ faults' = faults
           /\ check_instance_data(cloud, loc.instance_id).found)
          => pc' \in {"ssh_pending", "ssm_pending", "ssh_write", "ssm_log_group"}
       /\ pc \in {"ssh_restart", "ssm_restart"} => pc' # "apply_except"]_vars

\* the ledger recorded the kind for the instance name when the command started
RecordedAtStart(kind) ==
    /\ hist.start.ledger.is_file
    /\ instance_name \in DOMAIN hist.start.ledger.json
    /\ kind \in DOMAIN StartRecord.resources

\* a recorded key pair, security group or instance was not at the provider
\* when the command started
OrphanAtStart(kind) ==
    /\ RecordedAtStart(kind)
    /\ CASE kind = KEY_PAIR -> ~hist.start.cloud.key_pair
         [] kind = SECURITY_GROUP_ID ->
                hist.start.cloud.sg.id # StartRecord.resources[SECURITY_GROUP_ID]
         [] kind = INSTANCE_ID ->
                StartRecord.resources[INSTANCE_ID] \notin 1..Len(hist.start.cloud.instances)

\* the apply never issues a create call for a recorded key pair, security
\* group or instance
NoReplacement ==
    /\ RecordedAtStart(KEY_PAIR) => hist.creates["key_pair"] = 0
    /\ RecordedAtStart(SECURITY_GROUP_ID) => hist.creates["security_group"] = 0
    /\ RecordedAtStart(INSTANCE_ID) => hist.creates["instance"] = 0

GroupMismatch(record, c) ==
    /\ INSTANCE_ID \in DOMAIN record.resources
    /\ record.resources[INSTANCE_ID] \in 1..Len(c.instances)
    /\ IsLive(c.instances[record.resources[INSTANCE_ID]])
    /\ c.instances[record.resources[INSTANCE_ID]].sg = 0

\* C22: an apply whose record names a live instance attached to no security
\* group of the instance name never gets to setup_instance, and ends with an
\* error.
C22_GroupMismatchIsFatal ==
    (/\ task = "apply"
     /\ pc # "idle"
     /\ hist.start.ledger.is_file
     /\ instance_name \in DOMAIN hist.start.ledger.json
     /\ GroupMismatch(StartRecord, hist.start.cloud))
        => /\ ~Provisioned
           /\ pc = "done" => err # "none"

\* what a step creates at the provider
CreatedKeyPair == ~cloud.key_pair /\ cloud'.key_pair
CreatedGroup == cloud'.sg.id # 0 /\ cloud'.sg.id # cloud.sg.id
CreatedRole == ~cloud.role /\ cloud'.role
AttachedPolicies == cloud'.policies > cloud.policies
CreatedProfile == ~cloud.profile /\ cloud'.profile
AttachedRole == ~cloud.profile_role /\ cloud'.profile_role
CreatedInstance == Len(cloud'.instances) > Len(cloud.instances)
CreatedLogGroup == ~cloud.log_group /\ cloud'.log_group

\* the IAM part of the order: role, policies, instance profile, attachment
IamOrder ==
    /\ AttachedPolicies => cloud.role
    /\ CreatedProfile => cloud.role /\ cloud.policies = 3
    /\ AttachedRole => cloud'.profile /\ cloud.role /\ cloud.policies = 3

IamReady == cloud.role /\ cloud.policies = 3 /\ cloud.profile /\ cloud.profile_role

IamReadyOrRecorded == IamReady \/ RecordedAtStart(INSTANCE_PROFILE_ARN)

RetriesExhausted == pc = "raised" /\ err = "InvalidInstanceId"

\* a step that goes back to send_command after an error
Resubmits == pc \in {"dispatch_send", "dispatch_poll"} /\ pc' = "dispatch_send"

MaxTurns == 3
MaxEnis == 2

\* the instances of the account when the deletion starts
SgInstanceStates == {RUNNING, SHUTTING_DOWN, TERMINATED}

SgInstance(state, sgid, i) ==
    [state |-> state, key_name |-> "", sg |-> sgid,
     public_dns_name |-> IF state = RUNNING THEN i ELSE 0, profile |-> FALSE]

SgInstances(groups) ==
    UNION {{[i \in 1..n |-> SgInstance(st[i], sg[i], i)] :
               st \in [1..n -> SgInstanceStates], sg \in [1..n -> groups]} :
           n \in 0..MaxEnis}

InitSgDelete ==
    /\ \E exists \in BOOLEAN :
       \E insts \in SgInstances(IF exists THEN {0, 1} ELSE {0}) :
          cloud = [NoCloud EXCEPT !.sg = [id |-> IF exists THEN 1 ELSE 0, rules |-> {}],
                                  !.sg_count = 1,
                                  !.instances = insts]
    /\ ledger = NoFile
    /\ pem_file = FALSE
    /\ external_ip \in CallerIps
    /\ pc = "sg_delete"
    /\ task = "none"
    /\ args = [protocol |-> "ssh", whitelist_all |-> FALSE,
               no_delete_failure |-> FALSE, no_delete_success |-> FALSE]
    /\ current_data = [resources |-> EmptyMap, files |-> EmptyMap]
    /\ resource_data = EmptyMap
    /\ loc = [security_group_id |-> 1, turns |-> 0, deleted |-> 0]
    /\ returncode = -1
    /\ err = "none"
    /\ nOps = 0
    /\ faults = 0
    /\ hist = NoHist
    /\ patches = <<>>

\* one turn of the while True loop: delete_security_group, then break, sleep
\* or raise; turns counts the sleeps up to MaxTurns
SgDeleteTurn ==
    /\ pc = "sg_delete"
    /\ \E res \in DeleteResults :
          /\ delete_security_group(loc.security_group_id, res)
          /\ IF res = "retry"
             THEN /\ loc' = [loc EXCEPT !.turns = Min(@ + 1, MaxTurns)]
                  /\ UNCHANGED <<pc, err>>
             ELSE IF res = "ok"
             THEN /\ loc' = [loc EXCEPT !.deleted = @ + 1]
                  /\ pc' = "sg_deleted"
                  /\ UNCHANGED err
             ELSE /\ err' = res
                  /\ pc' = "raised"
                  /\ UNCHANGED loc
    /\ UNCHANGED <<ledger, pem_file, external_ip, task, args, current_data,
                   resource_data, returncode, nOps, hist, patches>>

NextSgDelete == SgDeleteTurn \/ EnvInstanceTerminated

\* the loop keeps running, and an instance that is shutting down reaches
\* terminated
SpecSgDelete ==
    /\ InitSgDelete
    /\ [][NextSgDelete]_vars
    /\ WF_vars(SgDeleteTurn)
    /\ WF_vars(EnvInstanceTerminated)

\* the violation clears: every instance in the group is on its way out
ViolationClears ==
    \A i \in 1..Len(cloud.instances) :
        cloud.instances[i].sg = loc.security_group_id
            => cloud.instances[i].state \in {SHUTTING_DOWN, TERMINATED}

\* C25: while the provider answers DependencyViolation the loop goes on, with
\* no bound on the turns; the first successful call ends it, so the group is
\* deleted exactly once; and when the violation clears the loop ends, with
\* the group deleted unless the provider raised another error.
C25_SgDeletion ==
    /\ [][/\ (pc = "sg_delete" /\ cloud.sg.id = loc.security_group_id
                /\ DependencyViolation(cloud, loc.security_group_id))
               => pc' = "sg_delete" /\ cloud'.sg = cloud.sg /\ err' = err
          /\ (pc = "sg_delete" /\ pc' = "sg_deleted")
               => /\ cloud.sg.id = loc.security_group_id
                  /\ cloud'.sg.id = 0
                  /\ loc.deleted = 0 /\ loc'.deleted = 1
          /\ pc # "sg_delete" => pc' = pc /\ loc' = loc /\ cloud'.sg = cloud.sg]_vars
    /\ (pc = "sg_delete" /\ ViolationClears)
          ~> (\/ pc = "sg_deleted" /\ loc.deleted = 1 /\ cloud.sg.id = 0
              \/ pc = "raised" /\ err \in {"NotFound", "ClientError"})

C25_Witness ==
    /\ pc = "sg_deleted"
    /\ loc.turns = MaxTurns
    /\ loc.deleted = 1
    /\ cloud.sg.id = 0

(***************************************************************************)
(* The except clauses of the four loops that recognise a provider error:   *)
(* security-group deletion, instance-profile association, ingress          *)
(* authorisation and SSM command submission.                               *)
(***************************************************************************)
RetryLoops == {"security_group_deletion", "profile_association",
               "ingress_authorisation", "command_submission"}

\* the codes of the provider errors the calls can answer with
ErrorCodes == {"DependencyViolation", "IncorrectInstanceState", "InvalidParameterValue",
               "InvalidPermission.Duplicate", "InvalidGroup.Duplicate",
               "InvalidInstanceId", "InvalidInstanceID.NotFound", "UnauthorizedOperation"}

\* str(e): the code of the error and the phrases of its message
ErrorText(code) ==
    {code} \cup
    (IF code = "InvalidPermission.Duplicate"
     THEN {"the specified rule", "already exists"}
     ELSE IF code = "InvalidGroup.Duplicate" THEN {"already exists"}
     ELSE {})

\* the except clause of each loop: "retry" sleeps and calls again, "return"
\* leaves the function, "raise" re-raises the error
SgDeletionExcept(code) ==
    IF "DependencyViolation" \in ErrorText(code) THEN "retry" ELSE "raise"

\* the association loop sleeping on every error
AssociationExceptAny(code) == "retry"

AssociationExcept(code) ==
    IF code = "IncorrectInstanceState" THEN "retry"
    ELSE IF code = "InvalidParameterValue" THEN "retry"
    ELSE "raise"

IngressExcept(code) ==
    IF "the specified rule" \in ErrorText(code) /\ "already exists" \in ErrorText(code)
    THEN "return"
    ELSE "raise"

SubmissionExcept(code, counter) ==
    IF "InvalidInstanceId" \in ErrorText(code)
    THEN IF counter >= 30 THEN "raise" ELSE "retry"
    ELSE "raise"

LoopExcept(loop, code, counter) ==
    IF loop = "security_group_deletion" THEN SgDeletionExcept(code)
    ELSE IF loop = "profile_association" THEN AssociationExcept(code)
    ELSE IF loop = "ingress_authorisation" THEN IngressExcept(code)
    ELSE SubmissionExcept(code, counter)

InitRetry ==
    /\ cloud = NoCloud
    /\ ledger = NoFile
    /\ pem_file = FALSE
    /\ external_ip = IpV4Caller
    /\ pc = "retry_call"
    /\ task = "none"
    /\ args = [protocol |-> "ssh", whitelist_all |-> FALSE,
               no_delete_failure |-> FALSE, no_delete_success |-> FALSE]
    /\ current_data = [resources |-> EmptyMap, files |-> EmptyMap]
    /\ resource_data = EmptyMap
    /\ \E loop \in RetryLoops : loc = [loop |-> loop, answers |-> <<>>, counter |-> 0]
    /\ returncode = -1
    /\ err = "none"
    /\ nOps = 0
    /\ faults = 0
    /\ hist = NoHist
    /\ patches = <<>>

\* the answers the provider gave, the first MaxTurns of them
Answered(code) ==
    IF Len(loc.answers) < MaxTurns THEN Append(loc.answers, code) ELSE loc.answers

\* the call inside the try block returns
RetryCallReturns ==
    /\ pc = "retry_call"
    /\ loc' = [loc EXCEPT !.answers = Answered("ok")]
    /\ pc' = "returned"
    /\ UNCHANGED <<cloud, ledger, pem_file, external_ip, task, args, current_data,
                   resource_data, returncode, err, nOps, faults, hist, patches>>

\* the call raises a provider error and the except clause handles it
RetryCallRaises ==
    /\ pc = "retry_call"
    /\ \E code \in ErrorCodes :
          LET todo == LoopExcept(loc.loop, code, loc.counter)
          IN  /\ loc' = [loc EXCEPT
                    !.answers = Answered(code),
                    !.counter = IF todo = "retry" /\ loc.loop = "command_submission"
                                THEN @ + 5 ELSE @]
              /\ pc' = IF todo = "retry" THEN "retry_call"
                       ELSE IF todo = "return" THEN "returned" ELSE "raised"
              /\ err' = IF todo = "raise" THEN code ELSE err
    /\ UNCHANGED <<cloud, ledger, pem_file, external_ip, task, args, current_data,
                   resource_data, returncode, nOps, faults, hist, patches>>

NextRetry == RetryCallReturns \/ RetryCallRaises

SpecRetry == InitRetry /\ [][NextRetry]_vars

\* the transient signature each loop knows
TransientCodes(loop) ==
    IF loop = "security_group_deletion" THEN {"DependencyViolation"}
    ELSE IF loop = "profile_association"
         THEN {"IncorrectInstanceState", "InvalidParameterValue"}
    ELSE IF loop = "ingress_authorisation" THEN {"InvalidPermission.Duplicate"}
    ELSE {"InvalidInstanceId"}

LastAnswer == loc.answers[Len(loc.answers)]

\* C26: in each of the four loops an error outside the loop's transient
\* signature is raised at the call that met it, and nothing is attempted after
\* the raise; the association loop goes round again only after
\* IncorrectInstanceState or InvalidParameterValue.
C26_UnknownErrorsRaised ==
    /\ pc = "retry_call" =>
          \A i \in 1..Len(loc.answers) : loc.answers[i] \in TransientCodes(loc.loop)
    /\ (pc # "retry_call" /\ LastAnswer \notin TransientCodes(loc.loop) \cup {"ok"})
          => pc = "raised" /\ err = LastAnswer
    /\ pc = "raised" =>
          \A i \in 1..(Len(loc.answers) - 1) : loc.answers[i] \in TransientCodes(loc.loop)
    /\ pc = "raised" =>
          \/ err \notin TransientCodes(loc.loop)
          \/ loc.loop = "command_submission" /\ loc.counter >= 30
    /\ pc = "raised" => ~ENABLED NextRetry

C26_Witness ==
    /\ pc = "raised"
    /\ loc.loop = "profile_association"
    /\ loc.answers = <<"IncorrectInstanceState", "InvalidParameterValue",
                       "UnauthorizedOperation">>

(***************************************************************************)
(* AwsMixin.detach_and_delete_iam_role call by call, followed by the       *)
(* delete_instance_profile of Ec2.delete.                                  *)
(***************************************************************************)
\* detach_and_delete_iam_role deleting the role before anything is detached
RoleDeleteStagesDeleteFirst ==
    <<"delete_role", "detach_policies_from_role", "detach_role_from_instance_profile">>

\* the three statements of detach_and_delete_iam_role
RoleDeleteStages ==
    <<"detach_policies_from_role", "detach_role_from_instance_profile", "delete_role">>

IamRecords ==
    {EmptyMap,
     ROLE_ARN :> "role-arn",
     INSTANCE_PROFILE_ARN :> "profile-arn",
     (ROLE_ARN :> "role-arn") @@ (INSTANCE_PROFILE_ARN :> "profile-arn")}

InitRoleDelete ==
    /\ \E role \in BOOLEAN, policies \in 0..3, profile \in BOOLEAN, profile_role \in BOOLEAN :
          /\ policies > 0 => role
          /\ profile_role => role /\ profile
          /\ cloud = [NoCloud EXCEPT !.role = role, !.policies = policies,
                                     !.profile = profile, !.profile_role = profile_role]
    /\ ledger = NoFile
    /\ pem_file = FALSE
    /\ external_ip = IpV4Caller
    /\ pc = "iam_role"
    /\ task = "delete"
    /\ args = [protocol |-> "ssm", whitelist_all |-> FALSE,
               no_delete_failure |-> FALSE, no_delete_success |-> FALSE]
    /\ \E resources \in IamRecords : current_data = [resources |-> resources, files |-> EmptyMap]
    /\ resource_data = EmptyMap
    /\ loc = [stage |-> 1, listed |-> FALSE, remaining |-> 0, calls |-> <<>>]
    /\ returncode = -1
    /\ err = "none"
    /\ nOps = 0
    /\ faults = 0
    /\ hist = NoHist
    /\ patches = <<>>

\* a call to the identity API, with what the role had when it was issued
IamCall(op) == [op |-> op, policies |-> cloud.policies, profile_role |-> cloud.profile_role]

IamRaise(op, e) ==
    /\ err' = e
    /\ pc' = "raised"
    /\ loc' = [loc EXCEPT !.calls = Append(@, IamCall(op))]

\* Ec2.delete: no role in the record, nothing to delete
RoleSkip ==
    /\ pc = "iam_role"
    /\ IsNone(current_resources, ROLE_ARN)
    /\ pc' = "iam_profile"
    /\ UNCHANGED <<cloud, ledger, pem_file, external_ip, task, args, current_data,
                   resource_data, loc, returncode, err, nOps, faults, hist, patches>>

\* detach_policies_from_role: list_attached_role_policies, then one
\* detach_role_policy for each policy listed
DetachPolicies ==
    /\ pc = "iam_role"
    /\ ~IsNone(current_resources, ROLE_ARN)
    /\ loc.stage \in 1..Len(RoleDeleteStages)
    /\ RoleDeleteStages[loc.stage] = "detach_policies_from_role"
    /\ IF ~loc.listed
       THEN \/ /\ Fault /\ IamRaise("list_attached_role_policies", "ClientError")
               /\ UNCHANGED cloud
            \/ /\ UNCHANGED <<cloud, faults>>
               /\ IF ~cloud.role
                  THEN IamRaise("list_attached_role_policies", "NotFound")
                  ELSE /\ loc' = [loc EXCEPT !.listed = TRUE, !.remaining = cloud.policies]
                       /\ UNCHANGED <<pc, err>>
       ELSE IF loc.remaining > 0
       THEN \/ /\ Fault /\ IamRaise("detach_role_policy", "ClientError") /\ UNCHANGED cloud
            \/ /\ cloud' = [cloud EXCEPT !.policies = @ - 1]
               /\ loc' = [loc EXCEPT !.remaining = @ - 1,
                                     !.calls = Append(@, IamCall("detach_role_policy"))]
               /\ UNCHANGED <<pc, err, faults>>
       ELSE /\ loc' = [loc EXCEPT !.stage = @ + 1, !.listed = FALSE]
            /\ UNCHANGED <<cloud, pc, err, faults>>
    /\ UNCHANGED <<ledger, pem_file, external_ip, task, args, current_data,
                   resource_data, returncode, nOps, hist, patches>>

\* detach_role_from_instance_profile: list_instance_profiles_for_role, then
\* one remove_role_from_instance_profile for each profile listed
DetachRole ==
    /\ pc = "iam_role"
    /\ ~IsNone(current_resources, ROLE_ARN)
    /\ loc.stage \in 1..Len(RoleDeleteStages)
    /\ RoleDeleteStages[loc.stage] = "detach_role_from_instance_profile"
    /\ IF ~loc.listed
       THEN \/ /\ Fault /\ IamRaise("list_instance_profiles_for_role", "ClientError")
               /\ UNCHANGED cloud
            \/ /\ UNCHANGED <<cloud, faults>>
               /\ IF ~cloud.role
                  THEN IamRaise("list_instance_profiles_for_role", "NotFound")
                  ELSE /\ loc' = [loc EXCEPT !.listed = TRUE,
                                     !.remaining = IF cloud.profile_role THEN 1 ELSE 0]
                       /\ UNCHANGED <<pc, err>>
       ELSE IF loc.remaining > 0
       THEN \/ /\ Fault /\ IamRaise("remove_role_from_instance_profile", "ClientError")
               /\ UNCHANGED cloud
            \/ /\ cloud' = [cloud EXCEPT !.profile_role = FALSE]
               /\ loc' = [loc EXCEPT !.remaining = @ - 1,
                             !.calls = Append(@, IamCall("remove_role_from_instance_profile"))]
               /\ UNCHANGED <<pc, err, faults>>
       ELSE /\ loc' = [loc EXCEPT !.stage = @ + 1, !.listed = FALSE]
            /\ UNCHANGED <<cloud, pc, err, faults>>
    /\ UNCHANGED <<ledger, pem_file, external_ip, task, args, current_data,
                   resource_data, returncode, nOps, hist, patches>>

\* iam_client.delete_role; the provider refuses a role that has policies
\* attached or sits in an instance profile
DeleteRole ==
    /\ pc = "iam_role"
    /\ ~IsNone(current_resources, ROLE_ARN)
    /\ loc.stage \in 1..Len(RoleDeleteStages)
    /\ RoleDeleteStages[loc.stage] = "delete_role"
    /\ \/ /\ Fault /\ IamRaise("delete_role", "ClientError") /\ UNCHANGED cloud
       \/ /\ UNCHANGED faults
          /\ IF ~cloud.role
             THEN IamRaise("delete_role", "NotFound") /\ UNCHANGED cloud
             ELSE IF cloud.policies > 0 \/ cloud.profile_role
             THEN IamRaise("delete_role", "DeleteConflict") /\ UNCHANGED cloud
             ELSE /\ cloud' = [cloud EXCEPT !.role = FALSE]
                  /\ loc' = [loc EXCEPT !.stage = @ + 1,
                                        !.calls = Append(@, IamCall("delete_role"))]
                  /\ UNCHANGED <<pc, err>>
    /\ UNCHANGED <<ledger, pem_file, external_ip, task, args, current_data,
                   resource_data, returncode, nOps, hist, patches>>

\* detach_and_delete_iam_role returns
RoleDeleted ==
    /\ pc = "iam_role"
    /\ loc.stage = Len(RoleDeleteStages) + 1
    /\ pc' = "iam_profile"
    /\ UNCHANGED <<cloud, ledger, pem_file, external_ip, task, args, current_data,
                   resource_data, loc, returncode, err, nOps, faults, hist, patches>>

\* Ec2.delete: the instance profile of the record
DeleteProfile ==
    /\ pc = "iam_profile"
    /\ IF IsNone(current_resources, INSTANCE_PROFILE_ARN)
       THEN pc' = "iam_done" /\ UNCHANGED <<cloud, loc, err, faults>>
       ELSE \E res \in DeleteResults :
              /\ delete_instance_profile(res)
              /\ IF res = "ok"
                 THEN /\ loc' = [loc EXCEPT !.calls = Append(@, IamCall("delete_instance_profile"))]
                      /\ pc' = "iam_done"
                      /\ UNCHANGED err
                 ELSE IamRaise("delete_instance_profile", res)
    /\ UNCHANGED <<ledger, pem_file, external_ip, task, args, current_data,
                   resource_data, returncode, nOps, hist, patches>>

NextRoleDelete ==
    \/ RoleSkip
    \/ DetachPolicies
    \/ DetachRole
    \/ DeleteRole
    \/ RoleDeleted
    \/ DeleteProfile

SpecRoleDelete == InitRoleDelete /\ [][NextRoleDelete]_vars

\* the place of a call in the order the claim gives
IamRank(op) ==
    IF op \in {"list_attached_role_policies", "detach_role_policy"} THEN 1
    ELSE IF op \in {"list_instance_profiles_for_role", "remove_role_from_instance_profile"}
         THEN 2
    ELSE IF op = "delete_role" THEN 3
    ELSE 4

RoleRecorded == ~IsNone(current_resources, ROLE_ARN)

\* C27: the calls of a role deletion come in the order detach policies,
\* remove the role from its instance profile, delete the role; delete_role
\* is never issued for a role that still has a policy attached or sits in an
\* instance profile; a role deletion that returns leaves no role, no
\* attached policy and no profile holding the role; and the instance profile
\* is deleted only when the role is no longer in it.
C27_RoleDeletionOrder ==
    /\ \A i \in 1..Len(loc.calls) :
          loc.calls[i].op = "delete_role"
             => loc.calls[i].policies = 0 /\ ~loc.calls[i].profile_role
    /\ \A i \in 1..Len(loc.calls) : \A j \in i..Len(loc.calls) :
          IamRank(loc.calls[i].op) <= IamRank(loc.calls[j].op)
    /\ (RoleRecorded /\ pc \in {"iam_profile", "iam_done"})
          => /\ ~cloud.role /\ cloud.policies = 0 /\ ~cloud.profile_role
             /\ \E i \in 1..Len(loc.calls) : loc.calls[i].op = "delete_role"
    /\ \A i \in 1..Len(loc.calls) :
          (loc.calls[i].op = "delete_instance_profile" /\ (pc = "iam_done" \/ i < Len(loc.calls)))
             => ~loc.calls[i].profile_role

C27_Witness ==
    /\ pc = "iam_done"
    /\ Len(loc.calls) = 6
    /\ loc.calls[1].policies = 3
    /\ loc.calls[4].op = "remove_role_from_instance_profile"
    /\ loc.calls[5].op = "delete_role"
    /\ loc.calls[6].op = "delete_instance_profile"
    /\ ~cloud.role /\ ~cloud.profile

(***************************************************************************)
(* AwsMixin.create_key_pair statement by statement.                        *)
(***************************************************************************)
KeyDirectories == {<<"~", ".alto">>, <<"tmp">>}

\* Path(directory / f"{key_name}.pem")
PemPath(directory, key_name) == directory \o <<key_name \o ".pem">>

InitKeyPair ==
    /\ \E key_pair \in BOOLEAN : cloud = [NoCloud EXCEPT !.key_pair = key_pair]
    /\ ledger = NoFile
    /\ pem_file \in BOOLEAN
    /\ external_ip = IpV4Caller
    /\ pc = "kp_create"
    /\ task = "apply"
    /\ args = [protocol |-> "ssh", whitelist_all |-> FALSE,
               no_delete_failure |-> FALSE, no_delete_success |-> FALSE]
    /\ current_data = [resources |-> EmptyMap, files |-> EmptyMap]
    /\ resource_data = EmptyMap
    /\ \E key_name \in {instance_name, other_name}, directory \in KeyDirectories,
          is_dir \in BOOLEAN :
          /\ pem_file => is_dir
          /\ loc = [key_name |-> key_name, directory |-> directory, is_dir |-> is_dir,
                    created |-> FALSE, write_failed |-> FALSE, ret |-> <<>>]
    /\ returncode = -1
    /\ err = "none"
    /\ nOps = 0
    /\ faults = 0
    /\ hist = NoHist
    /\ patches = <<>>

\* ec2_client.create_key_pair; the provider refuses a name it already has
KpCreate ==
    /\ pc = "kp_create"
    /\ \/ /\ Fault /\ err' = "ClientError" /\ pc' = "raised" /\ UNCHANGED <<cloud, loc>>
       \/ /\ cloud.key_pair
          /\ err' = "ClientError" /\ pc' = "raised"
          /\ UNCHANGED <<cloud, loc, faults>>
       \/ /\ ~cloud.key_pair
          /\ cloud' = [cloud EXCEPT !.key_pair = TRUE]
          /\ loc' = [loc EXCEPT !.created = TRUE]
          /\ pc' = IF loc.is_dir THEN "kp_write" ELSE "kp_mkdir"
          /\ UNCHANGED <<err, faults>>
    /\ UNCHANGED <<ledger, pem_file, external_ip, task, args, current_data,
                   resource_data, returncode, nOps, hist, patches>>

\* Path(directory).mkdir(parents=True), outside the try block
KpMkdir ==
    /\ pc = "kp_mkdir"
    /\ \/ loc' = [loc EXCEPT !.is_dir = TRUE] /\ pc' = "kp_write" /\ UNCHANGED err
       \/ err' = "OSError" /\ pc' = "raised" /\ UNCHANGED loc
    /\ UNCHANGED <<cloud, ledger, pem_file, external_ip, task, args, current_data,
                   resource_data, returncode, nOps, faults, hist, patches>>

\* open(..., 'w') and f.write(response["KeyMaterial"]); a failed open leaves
\* the file system as it was, a failed write leaves the file it opened
KpWrite ==
    /\ pc = "kp_write"
    /\ \/ pem_file' = TRUE /\ pc' = "kp_return" /\ UNCHANGED loc
       \/ /\ pem_file' \in {pem_file, TRUE}
          /\ loc' = [loc EXCEPT !.write_failed = TRUE]
          /\ pc' = "kp_except"
    /\ UNCHANGED <<cloud, ledger, external_ip, task, args, current_data,
                   resource_data, returncode, err, nOps, faults, hist, patches>>

\* the except clause raising without the delete_key_pair
KpExceptNoDelete ==
    /\ pc = "kp_except"
    /\ err' = "OSError" /\ pc' = "raised"
    /\ UNCHANGED <<cloud, ledger, pem_file, external_ip, task, args, current_data,
                   resource_data, loc, returncode, nOps, faults, hist, patches>>

\* except Exception as e: delete_key_pair, then raise e; an error of
\* delete_key_pair leaves the except clause in place of e
KpExcept ==
    /\ pc = "kp_except"
    /\ \/ /\ Fault /\ err' = "ClientError" /\ pc' = "raised" /\ UNCHANGED cloud
       \/ /\ cloud' = [cloud EXCEPT !.key_pair = FALSE]
          /\ err' = "OSError" /\ pc' = "raised"
          /\ UNCHANGED faults
    /\ UNCHANGED <<ledger, pem_file, external_ip, task, args, current_data,
                   resource_data, loc, returncode, nOps, hist, patches>>

\* the is_file check, os.chmod and the return of the path
KpReturn ==
    /\ pc = "kp_return"
    /\ IF ~pem_file
       THEN err' = "ValueError" /\ pc' = "raised" /\ UNCHANGED loc
       ELSE /\ loc' = [loc EXCEPT !.ret = PemPath(loc.directory, loc.key_name)]
            /\ pc' = "returned"
            /\ UNCHANGED err
    /\ UNCHANGED <<cloud, ledger, pem_file, external_ip, task, args, current_data,
                   resource_data, returncode, nOps, faults, hist, patches>>

NextKeyPair == KpCreate \/ KpMkdir \/ KpWrite \/ KpExcept \/ KpReturn

SpecKeyPair == InitKeyPair /\ [][NextKeyPair]_vars

\* create_key_pair raised after the write of the PEM file failed
WriteFailed == pc = "raised" /\ loc.write_failed

\* C28 as stated: after a failed write the remote key pair is gone when the
\* error is raised
C28_Original == WriteFailed => ~cloud.key_pair

\* C28: after a failed write the except clause asks the provider to delete
\* the remote key pair before anything is raised; when that deletion succeeds
\* the error of the write is raised and the remote key pair is gone, and the
\* key pair is left only when the deletion itself failed, whose error is then
\* the one raised; on success the path returned is
\* <directory>/<key name>.pem, with the key pair and the PEM file in place.
C28_KeyPairCleanup ==
    /\ WriteFailed => (err = "OSError" <=> ~cloud.key_pair)
    /\ WriteFailed => (cloud.key_pair <=> err = "ClientError" /\ faults > 0)
    /\ (loc.write_failed /\ cloud.key_pair /\ pc # "raised") => pc = "kp_except"
    /\ pc = "returned" =>
          /\ cloud.key_pair /\ pem_file
          /\ Len(loc.ret) = Len(loc.directory) + 1
          /\ SubSeq(loc.ret, 1, Len(loc.directory)) = loc.directory
          /\ loc.key_name = instance_name => loc.ret[Len(loc.ret)] = "proj-agent.pem"
          /\ loc.key_name = other_name => loc.ret[Len(loc.ret)] = "proj-other.pem"

C28_Witness ==
    /\ WriteFailed
    /\ err = "OSError"
    /\ loc.created
    /\ ~cloud.key_pair
    /\ ~pem_file

\* a teardown by delete that started with the key pair in the ledger record
\* and the PEM file gone
PemGoneAtStart ==
    /\ task = "delete"
    /\ RecordedAtStart(KEY_PAIR)
    /\ ~hist.start.pem_file

\* C29: a delete that finds the key pair recorded and the PEM file already
\* gone does not fail on the missing file: it ends with FileNotFoundError
\* never, and without a provider error it ends with no error at all.
C29_PemGoneTolerated ==
    (PemGoneAtStart /\ pc = "done")
        => /\ err # "FileNotFoundError"
           /\ faults = hist.start.faults => err = "none"

(***************************************************************************)
(* Two invocations inside Ec2.update_json at the same time: each tests     *)
(* is_file, reads the whole file, updates its copy and writes it back,     *)
(* with nothing that keeps the other out in between.                       *)
(***************************************************************************)
Invocations == {1, 2}

InitRace ==
    /\ cloud = NoCloud
    /\ \E file \in {NoFile,
                    write_json(other_name :> [resources |-> ("A" :> 7),
                                              files |-> (PEM_KEY_PATH :> "other.pem")])} :
          ledger \in {NoFile, Ec2Init(Ec2Init(file, instance_name), other_name)}
    /\ pem_file = FALSE
    /\ external_ip = IpV4Caller
    /\ pc = "race"
    /\ task = "none"
    /\ args = [protocol |-> "ssh", whitelist_all |-> FALSE,
               no_delete_failure |-> FALSE, no_delete_success |-> FALSE]
    /\ current_data = [resources |-> EmptyMap, files |-> EmptyMap]
    /\ resource_data = EmptyMap
    /\ \E names \in [Invocations -> MergeNames], datas \in [Invocations -> MergePatches] :
          loc = [p |-> [i \in Invocations |->
                          [at |-> "is_file", name |-> names[i], data |-> datas[i],
                           json_data |-> NoFile, stale |-> FALSE]],
                 writes |-> <<>>]
    /\ returncode = -1
    /\ err = "none"
    /\ nOps = 0
    /\ faults = 0
    /\ hist = [NoHist EXCEPT !.start.ledger = ledger]
    /\ patches = <<>>

\* if not json_path.is_file()
RaceIsFile(i) ==
    /\ pc = "race"
    /\ loc.p[i].at = "is_file"
    /\ loc' = [loc EXCEPT !.p[i].at = IF ledger.is_file THEN "read" ELSE "write"]
    /\ UNCHANGED <<cloud, ledger, pem_file, external_ip, pc, task, args, current_data,
                   resource_data, returncode, err, nOps, faults, hist, patches>>

\* json_data = json.loads(f.read()); a record without the map the patch
\* carries raises KeyError at the update
RaceRead(i) ==
    /\ pc = "race"
    /\ loc.p[i].at = "read"
    /\ loc' = [loc EXCEPT !.p[i].json_data = ledger,
                          !.p[i].at = IF update_json_raises(ledger, loc.p[i].name, loc.p[i].data)
                                      THEN "raised" ELSE "write"]
    /\ UNCHANGED <<cloud, ledger, pem_file, external_ip, pc, task, args, current_data,
                   resource_data, returncode, err, nOps, faults, hist, patches>>

\* update_json holding a lock from the read to the write
RaceWriteLocked(i) ==
    /\ pc = "race"
    /\ loc.p[i].at = "write"
    /\ ledger' = IF update_json_raises(ledger, loc.p[i].name, loc.p[i].data)
                 THEN ledger
                 ELSE update_json(ledger, loc.p[i].name, loc.p[i].data)
    /\ loc' = [loc EXCEPT
          !.p = [j \in Invocations |->
                    IF j = i THEN [@[j] EXCEPT !.at = "returned"]
                    ELSE IF @[j].at = "write" THEN [@[j] EXCEPT !.stale = TRUE]
                    ELSE @[j]],
          !.writes = Append(@, i)]
    /\ UNCHANGED <<cloud, pem_file, external_ip, pc, task, args, current_data,
                   resource_data, returncode, err, nOps, faults, hist, patches>>

\* self.write_json of the updated copy; the copy of an invocation that has
\* read and not yet written is out of date from here on
RaceWrite(i) ==
    /\ pc = "race"
    /\ loc.p[i].at = "write"
    /\ ledger' = update_json(loc.p[i].json_data, loc.p[i].name, loc.p[i].data)
    /\ loc' = [loc EXCEPT
          !.p = [j \in Invocations |->
                    IF j = i THEN [@[j] EXCEPT !.at = "returned"]
                    ELSE IF @[j].at = "write" THEN [@[j] EXCEPT !.stale = TRUE]
                    ELSE @[j]],
          !.writes = Append(@, i)]
    /\ UNCHANGED <<cloud, pem_file, external_ip, pc, task, args, current_data,
                   resource_data, returncode, err, nOps, faults, hist, patches>>

NextRace == \E i \in Invocations : RaceIsFile(i) \/ RaceRead(i) \/ RaceWrite(i)

SpecRace == InitRace /\ [][NextRace]_vars

\* the keys invocation i wrote, as <<map, key>>
Written(i) ==
    UNION {{<<m, k>> : k \in DOMAIN loc.p[i].data[m]} : m \in DOMAIN loc.p[i].data}

InLedger(file, name, map, k) ==
    /\ file.is_file
    /\ name \in DOMAIN file.json
    /\ map \in DOMAIN file.json[name]
    /\ k \in DOMAIN file.json[name][map]

\* invocation a wrote <<map, k>>, and the final file does not have it
LostUpdate(a, map, k) ==
    /\ loc.writes = <<a, 3 - a>>
    /\ <<map, k>> \in Written(a)
    /\ ~InLedger(ledger, loc.p[a].name, map, k)

\* C30: when two invocations both write and the second writes a copy it read
\* before the first wrote, every key the first one added, and the second did
\* not write itself, is missing from the final file; when the second read
\* after the first wrote, the file has the keys of both.
C30_LostUpdate ==
    \A a \in Invocations :
       LET b == 3 - a
       IN  loc.writes = <<a, b>> =>
             \A w \in Written(a) \cup Written(b) :
                /\ (/\ loc.p[b].stale
                    /\ w \in Written(a)
                    /\ ~InLedger(hist.start.ledger, loc.p[a].name, w[1], w[2])
                    /\ (loc.p[a].name # loc.p[b].name \/ w \notin Written(b)))
                      => LostUpdate(a, w[1], w[2])
                /\ ~loc.p[b].stale
                      => /\ w \in Written(a) => InLedger(ledger, loc.p[a].name, w[1], w[2])
                         /\ w \in Written(b) => InLedger(ledger, loc.p[b].name, w[1], w[2])

\* a lost update between invocations for different instance names
C30_Witness ==
    /\ loc.writes = <<1, 2>>
    /\ loc.p[1].name # loc.p[2].name
    /\ hist.start.ledger.is_file
    /\ LostUpdate(1, "resources", "B")

(***************************************************************************)
(* SSHProtocol.create_new_security_group statement by statement.           *)
(***************************************************************************)
InitSgCreate ==
    /\ \E taken \in BOOLEAN :
          cloud = [NoCloud EXCEPT !.sg = [id |-> IF taken THEN 1 ELSE 0, rules |-> {}],
                                  !.sg_count = IF taken THEN 1 ELSE 0]
    /\ ledger = NoFile
    /\ pem_file = FALSE
    /\ external_ip \in CallerIps
    /\ pc = "sg_vpcs"
    /\ task = "apply"
    /\ \E whitelist_all \in BOOLEAN :
          args = [protocol |-> "ssh", whitelist_all |-> whitelist_all,
                  no_delete_failure |-> FALSE, no_delete_success |-> FALSE]
    /\ current_data = [resources |-> EmptyMap, files |-> EmptyMap]
    /\ resource_data = EmptyMap
    /\ \E vpcs \in 0..1 :
          loc = [vpcs |-> vpcs, security_group_id |-> 0, e |-> "none",
                 authorised |-> FALSE, ret |-> 0]
    /\ returncode = -1
    /\ err = "none"
    /\ nOps = 0
    /\ faults = 0
    /\ hist = NoHist
    /\ patches = <<>>

\* describe_vpcs and response.get('Vpcs', [{}])[0]: an empty list has no [0]
SgDescribeVpcs ==
    /\ pc = "sg_vpcs"
    /\ \/ /\ Fault /\ err' = "ClientError" /\ pc' = "raised"
       \/ /\ UNCHANGED faults
          /\ IF loc.vpcs = 0
             THEN err' = "IndexError" /\ pc' = "raised"
             ELSE pc' = "sg_create" /\ UNCHANGED err
    /\ UNCHANGED <<cloud, ledger, pem_file, external_ip, task, args, current_data,
                   resource_data, loc, returncode, nOps, hist, patches>>

\* ec2_client.create_security_group; the provider refuses a group name the
\* VPC already has
SgCreate ==
    /\ pc = "sg_create"
    /\ \/ /\ Fault /\ err' = "ClientError" /\ pc' = "raised" /\ UNCHANGED <<cloud, loc>>
       \/ /\ cloud.sg.id # 0
          /\ err' = "ClientError" /\ pc' = "raised"
          /\ UNCHANGED <<cloud, loc, faults>>
       \/ /\ cloud.sg.id = 0
          /\ cloud' = [cloud EXCEPT !.sg_count = @ + 1,
                                    !.sg = [id |-> cloud.sg_count + 1, rules |-> {}]]
          /\ loc' = [loc EXCEPT !.security_group_id = cloud.sg_count + 1]
          /\ pc' = "sg_ident"
          /\ UNCHANGED <<err, faults>>
    /\ UNCHANGED <<ledger, pem_file, external_ip, task, args, current_data,
                   resource_data, returncode, nOps, hist, patches>>

\* urllib.request.urlopen('https://ident.me'), inside the try block
SgIdent ==
    /\ pc = "sg_ident"
    /\ \/ pc' = "sg_authorize" /\ UNCHANGED loc
       \/ loc' = [loc EXCEPT !.e = "URLError"] /\ pc' = "sg_except"
    /\ UNCHANGED <<cloud, ledger, pem_file, external_ip, task, args, current_data,
                   resource_data, returncode, err, nOps, faults, hist, patches>>

\* self.add_ingress_rule(ec2_client, security_group_id, external_ip), then
\* return security_group_id, vpc_id
SgAuthorize ==
    /\ pc = "sg_authorize"
    /\ \E ret \in IngressResults :
          /\ add_ingress_rule(loc.security_group_id, external_ip, args.whitelist_all, ret)
          /\ IF ret \in {"ValueError", "ClientError"}
             THEN loc' = [loc EXCEPT !.e = ret] /\ pc' = "sg_except"
             ELSE /\ loc' = [loc EXCEPT !.authorised = (ret = "Added"),
                                        !.ret = loc.security_group_id]
                  /\ pc' = "returned"
    /\ UNCHANGED <<ledger, pem_file, external_ip, task, args, current_data,
                   resource_data, returncode, err, nOps, hist, patches>>

\* the except clause raising without the delete_security_group
SgExceptNoDelete ==
    /\ pc = "sg_except"
    /\ err' = loc.e /\ pc' = "raised"
    /\ UNCHANGED <<cloud, ledger, pem_file, external_ip, task, args, current_data,
                   resource_data, loc, returncode, nOps, faults, hist, patches>>

\* except Exception as e: delete_security_group, then raise e; an error of
\* delete_security_group leaves the except clause in place of e
SgExcept ==
    /\ pc = "sg_except"
    /\ \/ /\ Fault /\ err' = "ClientError" /\ pc' = "raised" /\ UNCHANGED cloud
       \/ /\ cloud' = [cloud EXCEPT !.sg = [id |-> 0, rules |-> {}]]
          /\ err' = loc.e /\ pc' = "raised"
          /\ UNCHANGED faults
    /\ UNCHANGED <<ledger, pem_file, external_ip, task, args, current_data,
                   resource_data, loc, returncode, nOps, hist, patches>>

NextSgCreate == SgDescribeVpcs \/ SgCreate \/ SgIdent \/ SgAuthorize \/ SgExcept

SpecSgCreate == InitSgCreate /\ [][NextSgCreate]_vars

\* the function has left, by return or by raise, having created a group
SgCreatedAndLeft == pc \in {"raised", "returned"} /\ loc.security_group_id # 0

\* the try block raised e
SgTryRaised == pc = "raised" /\ loc.e # "none"

\* C31 as stated: a group the function created and left behind has its
\* initial rule, and after an error of the try block the group is gone
C31_Original ==
    /\ SgTryRaised => cloud.sg.id = 0
    /\ (SgCreatedAndLeft /\ cloud.sg.id # 0) => cloud.sg.rules # {}

\* C31: when determining the caller IP or authorising the rule raises, the
\* except clause asks the provider to delete the group before anything is
\* raised; when that deletion succeeds the error of the try block is raised
\* and the group is gone, and the group is left without its rule only when
\* the deletion itself failed, whose error is then the one raised; a group
\* the function returns has exactly the rule authorised for the caller.
C31_GroupCleanup ==
    /\ (SgTryRaised /\ cloud.sg.id # 0) => err = "ClientError" /\ faults > 0
    /\ (SgTryRaised /\ cloud.sg.id = 0) => err = loc.e
    /\ (loc.e # "none" /\ pc # "raised") => pc = "sg_except"
    /\ (SgCreatedAndLeft /\ cloud.sg.id # 0 /\ cloud.sg.rules = {})
          => SgTryRaised /\ err = "ClientError" /\ faults > 0
    /\ pc = "returned" =>
          /\ loc.ret = cloud.sg.id /\ loc.authorised
          /\ cloud.sg.rules = {IngressPermission(external_ip, args.whitelist_all)}

C31_Witness ==
    /\ SgTryRaised
    /\ err = "ClientError"
    /\ loc.e = "ClientError"
    /\ cloud.sg.id = 0
    /\ cloud.sg_count = 1

\* the rollback of an apply stands at the deletion of the recorded group
RollbackAtGroup ==
    /\ task = "apply"
    /\ pc = "rollback"
    /\ loc.step \in 1..Len(DeleteOrder)
    /\ DeleteOrder[loc.step] = SECURITY_GROUP_ID
    /\ SECURITY_GROUP_ID \in DOMAIN loc.json_data.resources

\* the instances the running command launched
LaunchedHere == (Len(hist.start.cloud.instances) + 1)..Len(cloud.instances)

\* C32: when the rollback of an apply reaches the deletion of the security
\* group, every instance this apply launched into the group has been
\* terminated by the rollback.
C32_RollbackTerminatesInstances ==
    RollbackAtGroup =>
        \A i \in LaunchedHere :
            cloud.instances[i].sg = loc.json_data.resources[SECURITY_GROUP_ID]
                => cloud.instances[i].state \in {SHUTTING_DOWN, TERMINATED}

\* the resources map of the record of name, for a record that has one
EntryHas(name, map, k) ==
    /\ map \in DOMAIN ledger.json[name]
    /\ k \in DOMAIN ledger.json[name][map]

\* the running command is an SSH one that found no instance recorded
SshPathEntry ==
    /\ args.protocol = "ssh"
    /\ task \in Tasks
    /\ ~RecordedAtStart(INSTANCE_ID)

\* C33: every entry of the ledger has a resources map and a files map; in an
\* entry KEY_PAIR is there exactly when PEM_KEY_PATH is, INSTANCE_ID comes
\* with PUBLIC_DNS_NAME and STATE, INSTANCE_PROFILE_ARN comes with ROLE_ARN,
\* and an instance recorded by an SSH command comes with KEY_PAIR and
\* SECURITY_GROUP_ID.
C33_LedgerClosure ==
    ledger.is_file =>
        \A name \in DOMAIN ledger.json :
            /\ {"resources", "files"} \subseteq DOMAIN ledger.json[name]
            /\ EntryHas(name, "resources", KEY_PAIR) <=> EntryHas(name, "files", PEM_KEY_PATH)
            /\ EntryHas(name, "resources", INSTANCE_ID)
                  => /\ EntryHas(name, "resources", PUBLIC_DNS_NAME)
                     /\ EntryHas(name, "resources", RES_STATE)
            /\ EntryHas(name, "resources", INSTANCE_PROFILE_ARN)
                  => EntryHas(name, "resources", ROLE_ARN)
            /\ (SshPathEntry /\ name = instance_name /\ EntryHas(name, "resources", INSTANCE_ID))
                  => /\ EntryHas(name, "resources", KEY_PAIR)
                     /\ EntryHas(name, "resources", SECURITY_GROUP_ID)

\* an SSH apply has recorded its instance next to an entry of another agent
C33_Witness ==
    /\ pc = "ssh_setup"
    /\ SshPathEntry
    /\ EntryHas(instance_name, "resources", INSTANCE_ID)
    /\ EntryHas(instance_name, "files", PEM_KEY_PATH)
    /\ other_name \in DOMAIN ledger.json
    /\ hist.start.ledger.is_file

\* C34: after a check that returns an added IP or None, the group holds the
\* TCP port-22 rule for exactly the searched source, and the check returned
\* None only when that rule was there before the call.
C34_ExactCidrMatch ==
    \A i \in 1..Len(hist.ingress) :
        LET c == hist.ingress[i] IN
        (c.op = "check" /\ c.ret \in {"None", "Added"})
            => /\ SearchedRule(c.ip, c.whitelist) \in c.after
               /\ c.ret = "None" => SearchedRule(c.ip, c.whitelist) \in c.before

\* C35: within one dispatch the provider accepts the command list at most
\* once: no error met after an accepted send_command has the list sent again.
C35_SentAtMostOnce == Len(hist.sent) <= 1

\* C36: in one run distinct declared artifact paths are staged under distinct
\* storage keys, so no local path is filled from the key of another artifact.
C36_DistinctKeys ==
    \A a, b \in 1..Min(Len(loc.artifacts), Len(loc.artifacts_s3_keys)) :
        loc.artifacts[a] # loc.artifacts[b]
            => loc.artifacts_s3_keys[a] # loc.artifacts_s3_keys[b]

\* the record of the ledger names no agent to run on
NotProvisioned ==
    /\ IsNone(current_resources, INSTANCE_ID)
    /\ args.protocol = "ssm" => IsNone(current_resources, LOG_GROUP)

\* C37: run on a record without INSTANCE_ID (and, with SSM, without LOG_GROUP)
\* returns a non-zero code without raising, executes and dispatches nothing
\* and leaves the provider's resources and the ledger as they were.
C37_RunWithoutAgent ==
    [][(pc \in {"ssh_run", "ssm_run"} /\ NotProvisioned)
          => /\ err' = "none"
             /\ hist'.run_rc = 1
             /\ hist'.execs = hist.execs /\ hist'.sent = hist.sent
             /\ cloud' = cloud /\ ledger' = ledger /\ pem_file' = pem_file]_vars


(***************************************************************************)
(* BuildTask.run: one agent object, agent.apply() and then agent.run() on  *)
(* it, the resources deleted after the run as RunTask.run deletes them.    *)
(***************************************************************************)
\* `alto build` has constructed the agent and enters agent.apply()
InitBuild ==
    /\ cloud = NoCloud
    /\ \E file \in {NoFile,
                    write_json(other_name :> [resources |-> (KEY_PAIR :> other_name),
                                              files |-> (PEM_KEY_PATH :> "other.pem")])} :
          ledger = Ec2Init(file, instance_name)
    /\ pem_file = FALSE
    /\ external_ip \in CallerIps
    /\ task = "apply"
    /\ \E protocol \in Protocols, whitelist_all \in BOOLEAN,
          no_delete_failure \in BOOLEAN, no_delete_success \in BOOLEAN :
          /\ protocol = "ssm" => ~whitelist_all
          /\ args = [protocol |-> protocol, whitelist_all |-> whitelist_all,
                     no_delete_failure |-> no_delete_failure,
                     no_delete_success |-> no_delete_success]
    /\ pc = IF args.protocol = "ssh" THEN "ssh_key_pair" ELSE "ssm_role"
    /\ current_data = ledger.json[instance_name]
    /\ resource_data = EmptyMap
    /\ loc = NoLoc
    /\ returncode = -1
    /\ err = "none"
    /\ nOps = 1
    /\ faults = 0
    /\ hist = [NoHist EXCEPT !.start = [ledger |-> ledger, cloud |-> cloud,
                                        pem_file |-> pem_file, faults |-> faults]]
    /\ patches = <<>>

\* agent.apply() has returned: BuildTask.run calls agent.run(), which opens and
\* reads the ledger and hands its record to the protocol
BuildRun ==
    /\ pc = "done" /\ task = "apply" /\ err = "none"
    /\ task' = "run"
    /\ returncode' = -1
    /\ IF ~ledger.is_file
       THEN err' = "FileNotFoundError" /\ pc' = "done" /\ UNCHANGED current_data
       ELSE IF instance_name \notin DOMAIN ledger.json
       THEN err' = "KeyError" /\ pc' = "done" /\ UNCHANGED current_data
       ELSE /\ current_data' = ledger.json[instance_name]
            /\ pc' = IF args.protocol = "ssh" THEN "ssh_run" ELSE "ssm_run"
            /\ UNCHANGED err
    /\ UNCHANGED <<cloud, ledger, pem_file, external_ip, args, resource_data, loc,
                   nOps, faults, hist, patches>>

\* the process ends: an exception left apply or run, or run and the deletion
\* after it are over
BuildExit ==
    /\ pc = "done"
    /\ task = "run" \/ err # "none"
    /\ pc' = "exited"
    /\ UNCHANGED <<cloud, ledger, pem_file, external_ip, task, args, current_data,
                   resource_data, loc, returncode, err, nOps, faults, hist, patches>>

NextBuild ==
    \/ EnvInstanceRunning
    \/ EnvInstanceTerminated
    \/ SshKeyPair
    \/ SshSecurityGroup
    \/ SshInstance
    \/ SshCheckInstance
    \/ SshPending
    \/ SshWrite
    \/ SshSetup
    \/ SshRetryIngress
    \/ SshEscalate
    \/ SshExec2
    \/ SsmRole
    \/ SsmPolicies
    \/ SsmProfile
    \/ SsmInstance
    \/ SsmAssociate
    \/ SsmCheckInstance
    \/ SsmLogGroup
    \/ SsmSetup
    \/ ApplyExcept
    \/ RbRead
    \/ RollbackStep
    \/ RbUnlink
    \/ BuildRun
    \/ SshRun
    \/ SshRunExec
    \/ SsmRun
    \/ Ec2DeleteStep
    \/ Ec2DeleteWrite
    \/ BuildExit

SpecBuild == InitBuild /\ [][NextBuild]_vars

\* BuildTask.run calls agent.run()
RunInvoked == task = "apply" /\ task' = "run"

\* C38: in the build task run is invoked only after an apply that returned 0;
\* after an apply that returned non-zero the task does not go on to run.
C38_RunOnlyAfterApply == [][RunInvoked => returncode = 0]_vars

====
